---- MODULE Spec2Model ----
(***************************************************************************)
(* A model of the occurrence and relation resolution engine of synesis-lsp *)
(* (explorer_requests.py, ontology_annotations.py, rename.py, cache.py).   *)
(*                                                                         *)
(* Every subsystem has its own variables and its own specification; the    *)
(* variables of the other subsystems stay at their initial value.          *)
(*   SpecRel    _build_relation_index over a stream of candidates          *)
(*   SpecGc     one get_codes build, item by item                          *)
(*   SpecPat    a rename pattern applied to a string                       *)
(*   SpecScan   a code rename scanning the lines of a .syn or .syno file   *)
(*   SpecCache  loads, invalidations and requests on the workspace cache   *)
(*   SpecWsCache WorkspaceCache under put, invalidate, get and has         *)
(*   SpecChain  the codes of one chain value, compiled or as text         *)
(*   SpecLoc    the location _index_chain stores for one chain            *)
(*   SpecTokens the raw-source rescan of one line of an item block        *)
(*   SpecPrepare prepare_rename and compute_rename on the same input       *)
(*   SpecEdits  the TextEdits a rename gives for one file                 *)
(*   SpecMemo   one result memo under many workspaces and snapshots       *)
(*   SpecServer the document handlers and the cache invalidation          *)
(*   SpecNorm   the _normalize_code functions on two spellings            *)
(*   SpecRename a rename over the files of a workspace                    *)
(*   SpecUsage  the usage maps of get_codes and the annotations           *)
(***************************************************************************)
EXTENDS Integers, Sequences, FiniteSets, TLC

VARIABLES
  \* ---- relation index build (explorer_requests._build_relation_index)
  relIndex,     \* the dict index: normalized triple -> [location, type]
  relPhase,     \* which loop of _build_relation_index is running
  relLast,      \* the candidate handled by the last step, and what became of it
  relCount,     \* candidates handled in this build
  relItemLoc,   \* per key, the location of the first item chain found for it
  \* ---- one get_codes index build (explorer_requests.get_codes)
  gcPc,         \* "build" | "done" (returned) | "raised" (an exception left get_codes)
  gcError,      \* the exception that left get_codes, or "none"
  gcFs,         \* the disk: what read_text does for each file
  gcCode,       \* the code whose _build_code_occurrences call is running
  gcDone,       \* codes whose entry is in the result
  gcItems,      \* the items handled so far by the running call, in order
  gcOccs,       \* occurrences: the list the running call has built
  gcSeen,       \* seen: the keys of that list
  gcShared,     \* get_codes' own file_cache and item_occ_cache dicts
  gcLocal,      \* the dicts the running call works on
  gcReads,      \* per file, the read_text calls that returned its content
  gcCodes,      \* codes: the result list
  gcSteps,      \* items handled in this build
  \* ---- one rename pattern applied to one string (rename.py)
  patPc,        \* "start" | "built" | "scanned"
  patPattern,   \* the compiled pattern
  patLine,      \* the string handed to pattern.finditer
  patMatches,   \* the matches of finditer, in order: [start, stop)
  \* ---- a code rename scanning one file (rename._find_and_replace_in_syn/_syno)
  scanFile,     \* "syn" | "syno": the suffix of the file
  scanLines,    \* the lines read so far
  scanIn,       \* in_item / in_ontology
  scanCodeField,\* current_code_field
  scanIndent,   \* current_field_indent
  scanEdits,    \* edits: the line and the part of the line each one covers
  \* ---- the workspace cache and the result memos (cache.py, explorer_requests.py,
  \*      ontology_annotations.py, ontology_topics.py, server.py)
  wsCache,      \* WorkspaceCache._cache: workspace key -> CachedCompilation
  wsClock,      \* time.time() as read by the last CachedCompilation created
  memoRel,      \* _RELATIONS_CACHE, in insertion order
  memoAnn,      \* _ANNOTATIONS_CACHE, in insertion order
  memoTop,      \* _TOPICS_CACHE, in insertion order
  wsLast,       \* the last request and its response; none after a cache operation
  \* ---- the TextEdits of one file
  edIn,         \* the file and the word of the rename
  edOut,        \* the edits of the scan
  \* ---- prepareRename and rename on one input
  prIn,         \* the document, the cursor and the cached compilation
  prRange,      \* what prepare_rename returned
  prEdit,       \* what compute_rename returned
  \* ---- the tokens of one line of an item block
  tkIn,         \* the line and the field it belongs to
  tkOut,        \* the occurrences found in it
  \* ---- the location of one indexed chain
  lcIn,         \* the chain and its item
  lcOut,        \* the location of its entry in the index
  \* ---- the server: documents, validation and the workspace cache
  svCache,      \* ls.workspace_cache
  svClock,      \* the loads so far
  svStale,      \* workspaces with a changed file and no successful load since
  svDocs,       \* ls.workspace_documents: workspace key -> uris
  svOpen,       \* the documents opened and not closed
  svEnabled,    \* ls.validation_enabled
  svPub,        \* what the last handler published, per document
  svLast,       \* the last handler, and whether it raised
  \* ---- WorkspaceCache alone
  wcCache,      \* WorkspaceCache._cache, in insertion order
  wcClock,      \* time.time(), as a count of the puts
  wcExpect,     \* per key, what the last put stored, None after invalidate
  wcLast,       \* the last call and what get and has returned
  \* ---- code normalization
  nmIn,         \* two spellings of a code
  nmOut,        \* their keys under one of the _normalize_code functions
  \* ---- the codes of one chain value
  chIn,         \* the chain or the text, and whether its field declares relations
  chOp,         \* what was applied: "extract" | "tokens"
  chOut,        \* the codes or tokens it gave
  \* ---- one result memo under many workspaces and snapshots
  mmKind,       \* which memo: "relations" | "annotations" | "topics"
  mmMemo,       \* the memo, in insertion order
  mmLast,       \* the key of the last request and the memo it found
  \* ---- a rename over the files of a workspace (rename.py)
  rnFiles,      \* the .syn and .syno files: what is on disk
  rnTemplate,   \* cached_result.result.template
  rnBib,        \* the files that lp names for the bibref
  rnOp,         \* the rename asked last: "code" | "bibref"
  rnResult,     \* what it returned: "None" | "WorkspaceEdit"
  rnChanges,    \* WorkspaceEdit.changes: file -> edits
  \* ---- the usage maps of get_codes and get_ontology_annotations
  usBase,       \* lp.code_usage: raw key -> items
  usOnto,       \* the keys of lp.ontology_index, in order
  usProject,    \* the items of lp.sources, in order
  usOp,         \* the request answered last
  usUsage,      \* the usage map that request built
  usOut         \* its result list: codes or annotations

relVars == <<relIndex, relPhase, relLast, relCount, relItemLoc>>

gcVars == <<gcPc, gcError, gcFs, gcCode, gcDone, gcItems, gcOccs, gcSeen, gcShared,
            gcLocal, gcReads, gcCodes, gcSteps>>

patVars == <<patPc, patPattern, patLine, patMatches>>

scanVars == <<scanFile, scanLines, scanIn, scanCodeField, scanIndent, scanEdits>>

wsVars == <<wsCache, wsClock, memoRel, memoAnn, memoTop, wsLast>>

chVars == <<chIn, chOp, chOut>>

wcVars == <<wcCache, wcClock, wcExpect, wcLast>>

svVars == <<svCache, svClock, svStale, svDocs, svOpen, svEnabled, svPub, svLast>>

lcVars == <<lcIn, lcOut>>

tkVars == <<tkIn, tkOut>>

prVars == <<prIn, prRange, prEdit>>

edVars == <<edIn, edOut>>

mmVars == <<mmKind, mmMemo, mmLast>>

nmVars == <<nmIn, nmOut>>

rnVars == <<rnFiles, rnTemplate, rnBib, rnOp, rnResult, rnChanges>>

usVars == <<usBase, usOnto, usProject, usOp, usUsage, usOut>>

vars == <<relVars, gcVars, patVars, scanVars, wsVars, chVars, wcVars, svVars, lcVars,
          tkVars, prVars, edVars, mmVars, nmVars, rnVars, usVars>>

\* What the actions of one subsystem leave alone
relOthers == <<gcVars, patVars, scanVars, wsVars, chVars, wcVars, svVars, lcVars,
               tkVars, prVars, edVars, mmVars, nmVars, rnVars, usVars>>
gcOthers == <<relVars, patVars, scanVars, wsVars, chVars, wcVars, svVars, lcVars,
              tkVars, prVars, edVars, mmVars, nmVars, rnVars, usVars>>
patOthers == <<relVars, gcVars, scanVars, wsVars, chVars, wcVars, svVars, lcVars,
               tkVars, prVars, edVars, mmVars, nmVars, rnVars, usVars>>
scanOthers == <<relVars, gcVars, patVars, wsVars, chVars, wcVars, svVars, lcVars,
                tkVars, prVars, edVars, mmVars, nmVars, rnVars, usVars>>
wsOthers == <<relVars, gcVars, patVars, scanVars, chVars, wcVars, svVars, lcVars,
              tkVars, prVars, edVars, mmVars, nmVars, rnVars, usVars>>
chOthers == <<relVars, gcVars, patVars, scanVars, wsVars, wcVars, svVars, lcVars,
              tkVars, prVars, edVars, mmVars, nmVars, rnVars, usVars>>
wcOthers == <<relVars, gcVars, patVars, scanVars, wsVars, chVars, svVars, lcVars,
              tkVars, prVars, edVars, mmVars, nmVars, rnVars, usVars>>
svOthers == <<relVars, gcVars, patVars, scanVars, wsVars, chVars, wcVars, lcVars,
              tkVars, prVars, edVars, mmVars, nmVars, rnVars, usVars>>
lcOthers == <<relVars, gcVars, patVars, scanVars, wsVars, chVars, wcVars, svVars,
              tkVars, prVars, edVars, mmVars, nmVars, rnVars, usVars>>
tkOthers == <<relVars, gcVars, patVars, scanVars, wsVars, chVars, wcVars, svVars,
              lcVars, prVars, edVars, mmVars, nmVars, rnVars, usVars>>
prOthers == <<relVars, gcVars, patVars, scanVars, wsVars, chVars, wcVars, svVars,
              lcVars, tkVars, edVars, mmVars, nmVars, rnVars, usVars>>
edOthers == <<relVars, gcVars, patVars, scanVars, wsVars, chVars, wcVars, svVars,
              lcVars, tkVars, prVars, mmVars, nmVars, rnVars, usVars>>
mmOthers == <<relVars, gcVars, patVars, scanVars, wsVars, chVars, wcVars, svVars,
              lcVars, tkVars, prVars, edVars, nmVars, rnVars, usVars>>
nmOthers == <<relVars, gcVars, patVars, scanVars, wsVars, chVars, wcVars, svVars,
              lcVars, tkVars, prVars, edVars, mmVars, rnVars, usVars>>
rnOthers == <<relVars, gcVars, patVars, scanVars, wsVars, chVars, wcVars, svVars,
              lcVars, tkVars, prVars, edVars, mmVars, nmVars, usVars>>
usOthers == <<relVars, gcVars, patVars, scanVars, wsVars, chVars, wcVars, svVars,
              lcVars, tkVars, prVars, edVars, mmVars, nmVars, rnVars>>

(***************************************************************************)
(* Strings are sequences of one-character strings, so that strip(),        *)
(* lower() and split() are computed and not assumed.                       *)
(***************************************************************************)
UpperChars == <<"A", "B", "C", "D", "E", "F", "G", "H", "I", "J", "K", "L", "M",
                "N", "O", "P", "Q", "R", "S", "T", "U", "V", "W", "X", "Y", "Z">>
LowerChars == <<"a", "b", "c", "d", "e", "f", "g", "h", "i", "j", "k", "l", "m",
                "n", "o", "p", "q", "r", "s", "t", "u", "v", "w", "x", "y", "z">>

LowerChar(c) ==
  IF \E i \in 1..Len(UpperChars) : UpperChars[i] = c
  THEN LowerChars[CHOOSE i \in 1..Len(UpperChars) : UpperChars[i] = c]
  ELSE c

\* str.lower()
Lower(s) == [i \in 1..Len(s) |-> LowerChar(s[i])]

UpperChar(c) ==
  IF \E i \in 1..Len(LowerChars) : LowerChars[i] = c
  THEN UpperChars[CHOOSE i \in 1..Len(LowerChars) : LowerChars[i] = c]
  ELSE c

\* str.upper()
Upper(s) == [i \in 1..Len(s) |-> UpperChar(s[i])]

\* str.isspace() of one character
IsSpace(c) == c \in {" ", "\t"}

FirstNonSpace(s) ==
  IF \A i \in 1..Len(s) : IsSpace(s[i])
  THEN Len(s) + 1
  ELSE CHOOSE i \in 1..Len(s) : ~IsSpace(s[i]) /\ \A j \in 1..(i - 1) : IsSpace(s[j])

LastNonSpace(s) ==
  IF \A i \in 1..Len(s) : IsSpace(s[i])
  THEN 0
  ELSE CHOOSE i \in 1..Len(s) : ~IsSpace(s[i]) /\ \A j \in (i + 1)..Len(s) : IsSpace(s[j])

\* str.strip()
Strip(s) == SubSeq(s, FirstNonSpace(s), LastNonSpace(s))

\* str.lstrip()
LStrip(s) == SubSeq(s, FirstNonSpace(s), Len(s))

\* " ".join(s.split()): runs of whitespace become one space, none at the ends
RECURSIVE SplitJoin(_)
SplitJoin(s) ==
  LET t == Strip(s) IN
  IF t = <<>> THEN <<>>
  ELSE IF \A i \in 1..Len(t) : ~IsSpace(t[i]) THEN t
  ELSE LET p == CHOOSE i \in 1..Len(t) : IsSpace(t[i]) /\ \A j \in 1..(i - 1) : ~IsSpace(t[j])
       IN  SubSeq(t, 1, p - 1) \o <<" ">> \o SplitJoin(SubSeq(t, p + 1, Len(t)))

(***************************************************************************)
(* explorer_requests.py: normalization                                     *)
(***************************************************************************)
\* _normalize_code: value.strip().lower()
er_normalize_code(value) == Lower(Strip(value))

\* _normalize_triple
normalize_triple(subject, relation, obj) ==
  <<er_normalize_code(subject), er_normalize_code(relation), er_normalize_code(obj)>>

(***************************************************************************)
(* explorer_requests.py: the relation index                                *)
(*                                                                         *)
(* A location is "absent" (None), "nofile" (an object without file, line   *)
(* or column), "noline" (a file but no line) or a complete location.       *)
(***************************************************************************)
GoodLocs == {"locA", "locB"}
LocVals == {"absent", "nofile"} \cup GoodLocs

\* _location_dict: None for a missing or incomplete location
location_dict(location) ==
  IF location \in {"absent", "nofile", "noline"} THEN "absent" ELSE location

RelSubjects == {<<"a">>, <<" ", "A">>, <<"b">>}
RelRelations == {<<"r">>}
RelObjects == {<<"c">>}

\* The shapes a chain comes in: a tuple or list (with or without a 4th slot),
\* an object with attributes, a mapping, or something unrecognized.
ChainShapes == {"tuple3", "tuple4", "object", "dict", "other"}

\* Candidates of _index_chain. slot is chain[3], attr is chain.location,
\* dloc is chain["location"]; a plain tuple or dict has no location attribute.
Chains ==
  { c \in [shape : ChainShapes, s : RelSubjects, r : RelRelations, o : RelObjects,
           slot : LocVals, attr : LocVals, dloc : LocVals, typed : BOOLEAN] :
      /\ c.shape # "tuple4" => c.slot = "absent"
      /\ c.shape # "object" => c.attr = "absent"
      /\ c.shape # "dict" => c.dloc = "absent" }

\* _extract_chain_triple: None ("none") for an unrecognized shape
extract_chain_triple(chain) ==
  IF chain.shape = "other" THEN "none" ELSE <<chain.s, chain.r, chain.o>>

\* _extract_chain_type: "qualified" with a type attribute or a "::" in the
\* string form, "simple" otherwise; never None
extract_chain_type(chain) == IF chain.typed THEN "qualified" ELSE "simple"

\* _index_chain, location priority 1: tuple[3]
ChainLoc1(chain) ==
  IF chain.shape = "tuple4" THEN location_dict(chain.slot) ELSE "absent"

\* priority 2: chain.location
ChainLoc2(chain, loc) ==
  IF loc = "absent" /\ chain.attr # "absent" THEN location_dict(chain.attr) ELSE loc

\* priority 3: chain["location"]
ChainLoc3(chain, loc) ==
  IF loc = "absent" /\ chain.shape = "dict" THEN location_dict(chain.dloc) ELSE loc

\* An item: its location, and the location of item.source ("nosource": the
\* item has no source)
RelItems == [loc : LocVals \cup {"noline"}, source : LocVals \cup {"nosource"}]

\* _index_chain, the item_loc of priority 4: item.location, or the location of
\* item.source when the item has none or one without a file
item_location(item) ==
  IF item.loc \in {"absent", "nofile"}
  THEN IF item.source = "nosource" THEN item.loc ELSE item.source
  ELSE item.loc

ChainLoc4First(itemLoc, loc) ==
  IF itemLoc # "absent" THEN location_dict(itemLoc) ELSE loc

\* priority 4: the item's location (item is None for project-level chains)
ChainLoc4(itemLoc, loc) ==
  IF loc = "absent" /\ itemLoc # "absent" THEN location_dict(itemLoc) ELSE loc

ChainLocation(chain, itemLoc) ==
  ChainLoc4(itemLoc, ChainLoc3(chain, ChainLoc2(chain, ChainLoc1(chain))))

\* The "key in index" test of _index_chain and of the mapping merge
IndexKeeps(index, key) == FALSE
KeyInIndex(index, key) == key \in DOMAIN index

index_chain_overwrite(index, chain, itemLoc) ==
  LET triple == extract_chain_triple(chain) IN
  IF triple = "none" THEN index
  ELSE LET key == normalize_triple(triple[1], triple[2], triple[3])
           entry == [location |-> ChainLocation(chain, itemLoc),
                     type |-> extract_chain_type(chain)]
       IN  [k \in DOMAIN index \cup {key} |-> IF k = key THEN entry ELSE index[k]]

\* _index_chain: the index after the call
index_chain(index, chain, itemLoc) ==
  LET triple == extract_chain_triple(chain) IN
  IF triple = "none" THEN index
  ELSE LET key == normalize_triple(triple[1], triple[2], triple[3]) IN
       IF KeyInIndex(index, key) THEN index
       ELSE LET entry == [location |-> ChainLocation(chain, itemLoc),
                          type |-> extract_chain_type(chain)]
            IN  [k \in DOMAIN index \cup {key} |-> IF k = key THEN entry ELSE index[k]]

\* One entry of a relation mapping: raw_key, and of the value the location it
\* carries (value[3], value["location"] or the value itself) and its type
MappingEntries ==
  [s : RelSubjects, r : RelRelations, o : RelObjects, vloc : LocVals, typed : BOOLEAN]

\* _merge_relation_index_from_mapping, one (raw_key, value) pair
merge_mapping_entry(index, m) ==
  LET key == normalize_triple(m.s, m.r, m.o) IN
  IF KeyInIndex(index, key) THEN index
  ELSE LET entry == [location |-> location_dict(m.vloc),
                     type |-> IF m.typed THEN "qualified" ELSE "simple"]
       IN  [k \in DOMAIN index \cup {key} |-> IF k = key THEN entry ELSE index[k]]

\* get_relations: the location reported for a triple of lp.all_triples
reported_location(index, key) ==
  IF key \in DOMAIN index /\ index[key].location # "absent"
  THEN index[key].location ELSE "absent"

MaxRelCandidates == 3

RelNoLast == [key |-> <<>>, loc |-> "absent", dup |-> FALSE]

EmptyIndex == [k \in {} |-> "absent"]

RelInit ==
  /\ relIndex = EmptyIndex
  /\ relPhase = "items"
  /\ relLast = RelNoLast
  /\ relCount = 0
  /\ relItemLoc = EmptyIndex

\* No build is running (the other specifications)
RelIdle ==
  /\ relIndex = EmptyIndex
  /\ relPhase = "idle"
  /\ relLast = RelNoLast
  /\ relCount = 0
  /\ relItemLoc = EmptyIndex

\* for item in src.items: for chain in item.chains: _index_chain(index, chain, item, ...)
RelItemChain ==
  /\ relPhase = "items"
  /\ relCount < MaxRelCandidates
  /\ \E chain \in Chains, item \in RelItems :
       LET itemLoc == item_location(item)
           triple == extract_chain_triple(chain)
           key == IF triple = "none" THEN <<>>
                  ELSE normalize_triple(triple[1], triple[2], triple[3])
       IN  /\ relIndex' = index_chain(relIndex, chain, itemLoc)
           /\ relLast' = [key |-> key, loc |-> ChainLocation(chain, itemLoc),
                          dup |-> key \in DOMAIN relIndex]
           /\ relItemLoc' = IF triple = "none" \/ key \in DOMAIN relItemLoc THEN relItemLoc
                             ELSE [k \in DOMAIN relItemLoc \cup {key} |->
                                     IF k = key THEN ChainLocation(chain, itemLoc)
                                     ELSE relItemLoc[k]]
  /\ relCount' = relCount + 1
  /\ UNCHANGED <<relPhase, relOthers>>

\* _merge_relation_index_from_mapping(index, lp, workspace_root)
RelMapping ==
  /\ relPhase = "mapping"
  /\ relCount < MaxRelCandidates
  /\ \E m \in MappingEntries :
       LET key == normalize_triple(m.s, m.r, m.o) IN
       /\ relIndex' = merge_mapping_entry(relIndex, m)
       /\ relLast' = [key |-> key, loc |-> location_dict(m.vloc),
                      dup |-> key \in DOMAIN relIndex]
  /\ relCount' = relCount + 1
  /\ UNCHANGED <<relPhase, relItemLoc, relOthers>>

\* for chain in _iter_lp_chains(lp): _index_chain(index, chain, None, ...)
RelLpChain ==
  /\ relPhase = "lpchains"
  /\ relCount < MaxRelCandidates
  /\ \E chain \in Chains :
       LET triple == extract_chain_triple(chain)
           key == IF triple = "none" THEN <<>>
                  ELSE normalize_triple(triple[1], triple[2], triple[3])
       IN  /\ relIndex' = index_chain(relIndex, chain, "absent")
           /\ relLast' = [key |-> key, loc |-> ChainLocation(chain, "absent"),
                          dup |-> key \in DOMAIN relIndex]
  /\ relCount' = relCount + 1
  /\ UNCHANGED <<relPhase, relItemLoc, relOthers>>

\* The loops of _build_relation_index run in a fixed order.
RelNextPhase ==
  /\ relPhase \in {"items", "mapping", "lpchains"}
  /\ relPhase' = CASE relPhase = "items" -> "mapping"
                   [] relPhase = "mapping" -> "lpchains"
                   [] relPhase = "lpchains" -> "done"
  /\ relLast' = RelNoLast
  /\ UNCHANGED <<relIndex, relCount, relItemLoc, relOthers>>

\* The next build starts from an empty index.
RelRestart ==
  /\ relPhase = "done"
  /\ relIndex' = EmptyIndex
  /\ relPhase' = "items"
  /\ relLast' = RelNoLast
  /\ relCount' = 0
  /\ relItemLoc' = EmptyIndex
  /\ UNCHANGED relOthers

RelNext ==
  \/ RelItemChain
  \/ RelMapping
  \/ RelLpChain
  \/ RelNextPhase
  \/ RelRestart

(***************************************************************************)
(* explorer_requests.py: the location that _index_chain stores for one     *)
(* chain of one item                                                       *)
(***************************************************************************)
\* Chains of every shape; a list, tuple or dict may be of a subclass that has
\* a location attribute as well
LcChains ==
  { c \in [shape : ChainShapes, s : {<<"a">>}, r : RelRelations, o : RelObjects,
           slot : LocVals, attr : LocVals, dloc : LocVals, typed : {FALSE}] :
      /\ c.shape # "tuple4" => c.slot = "absent"
      /\ c.shape # "dict" => c.dloc = "absent" }

LcInit ==
  /\ lcIn \in [chain : LcChains, item : RelItems]
  /\ lcOut = "unset"

\* No chain is indexed (the other specifications)
LcIdle ==
  /\ lcIn = [chain |-> [shape |-> "other", s |-> <<"a">>, r |-> <<"r">>, o |-> <<"c">>,
                        slot |-> "absent", attr |-> "absent", dloc |-> "absent",
                        typed |-> FALSE],
             item |-> [loc |-> "absent", source |-> "nosource"]]
  /\ lcOut = "idle"

\* _index_chain(index, chain, item, workspace_root) on an empty index: the
\* location of the entry, "absent" when the entry has none, "noentry" when the
\* chain is not indexed
LcIndexChain ==
  /\ lcOut = "unset"
  /\ LET index == index_chain(EmptyIndex, lcIn.chain, item_location(lcIn.item)) IN
       lcOut' = IF DOMAIN index = {} THEN "noentry"
                ELSE index[CHOOSE k \in DOMAIN index : TRUE].location
  /\ UNCHANGED <<lcIn, lcOthers>>

LcNext == LcIndexChain

(***************************************************************************)
(* explorer_requests.py: get_codes and _build_code_occurrences             *)
(*                                                                         *)
(* One build is followed item by item: the loop over code_usage (one       *)
(* _build_code_occurrences call per code) and, inside a call, the loop     *)
(* over the code's items. The items of a code are drawn as the loop goes.  *)
(***************************************************************************)
GcFiles == {"f1", "f2"}

\* A line of a source file, as _parse_item_block_occurrences tells lines apart:
\* "item" (ITEM header), "end" (END ITEM), "blank", "comment" (# ...),
\* "field" (name: value) and "text" (anything else), with its indentation.
Ln(kind, indent) == [kind |-> kind, indent |-> indent]

\* A file with two items: the block at line 1 holds only a comment and a blank
\* line, the block at line 5 holds a field.
GcText ==
  <<Ln("item", 0), Ln("comment", 2), Ln("blank", 0), Ln("end", 0),
    Ln("item", 0), Ln("field", 2), Ln("end", 0)>>

\* What Path.read_text does for a file: raise FileNotFoundError (an OSError),
\* raise UnicodeDecodeError, or return the text.
GcFileKinds == {"missing", "undecodable", "text"}

\* Field names and codes of the items
FCODE == <<"C", "O", "D", "E">>
FCODES == <<"C", "O", "D", "E", "S">>
Fcode == <<"c", "o", "d", "e">>
Ftema == <<"t", "e", "m", "a">>
FCHAIN == <<"C", "H", "A", "I", "N">>
CodeX == <<"x">>
CodeY == <<"y">>
CodeR == <<"r">>

\* The keys of code_usage after normalization and the ontology merge
GcCodeKeys == {CodeX, CodeY}
\* lp.ontology_index
GcOntology == {CodeX}

\* template.field_specs: tema is an ITEM field of type CODE; "chain" is an ITEM
\* field of type CHAIN that declares relations.
GcChainSpecHasRelations == TRUE

\* An extra field: its name, its value (a list of strings) and whether
\* item.field_locations has an entry for it.
GcExtraFields ==
  { <<>>,
    <<[name |-> Fcode, vals |-> <<CodeX>>, loc |-> FALSE]>>,
    <<[name |-> FCODE, vals |-> <<CodeX>>, loc |-> FALSE]>>,
    <<[name |-> Ftema, vals |-> <<CodeX>>, loc |-> TRUE]>> }

\* item.chains: objects with nodes, with or without a location attribute
GcChainLists ==
  { <<>>,
    <<[nodes |-> <<CodeX, CodeR, CodeY>>, loc |-> TRUE]>>,
    <<[nodes |-> <<CodeX, CodeR, CodeY>>, loc |-> FALSE]>> }

\* The items: a location (file, line, column 1), item.codes, item.extra_fields
\* and item.chains. located = FALSE is an item without any location.
GcItemConfigs ==
  { it \in [located : BOOLEAN, file : GcFiles, line : {1, 5}, codes : {<<>>, <<CodeX>>},
            extra : GcExtraFields, chains : GcChainLists] :
      /\ it.file = "f2" => it.line = 1
      /\ it.chains # <<>> => it.extra = <<>>
      /\ ~it.located => (it.file = "f1" /\ it.line = 1 /\ it.codes = <<>>
                          /\ it.extra = <<>> /\ it.chains = <<>>) }

ItemLine(item) == item.line
ItemColumn(item) == 1

\* Where the compiler says a field or a chain is (any place but the item's own)
FieldLocLine(item) == item.line + 1
FieldLocColumn(item) == 7
ChainLocLine(item) == item.line + 2
ChainLocColumn(item) == 3

\* _parse_item_block_occurrences: the end of the block
EndIdx(lines, start) ==
  LET itemIndent == lines[start].indent
      ends == { i \in (start + 1)..Len(lines) :
                  lines[i].kind = "end" /\ lines[i].indent <= itemIndent }
  IN  IF ends = {} THEN Len(lines) + 1
      ELSE CHOOSE i \in ends : \A j \in ends : i <= j

\* _parse_item_block_occurrences(lines, start_idx, ...), start = start_idx + 1.
\* The module never imports re, so the re.match of the first line that is neither
\* blank nor a comment raises NameError; a block without such a line, or a start
\* outside the file, gives the empty dict.
parse_item_block_occurrences(lines, start) ==
  IF start < 1 \/ start > Len(lines) THEN "empty"
  ELSE IF \E i \in (start + 1)..(EndIdx(lines, start) - 1) :
             lines[i].kind \notin {"blank", "comment"}
       THEN "NameError"
       ELSE "empty"

\* file_cache = file_cache or {} (and the same for item_occ_cache): the dict the
\* call works on is the caller's only when the caller's is not empty.
OrEmptyAlias(d) == d # {}

GcLocalOf(shared) ==
  [files |-> shared.files, items |-> shared.items,
   aliasFiles |-> OrEmptyAlias(shared.files), aliasItems |-> OrEmptyAlias(shared.items)]

\* _get_item_text_occurrences: the outcome ("empty": an empty dict, or the
\* exception that leaves it), the caches afterwards, and whether read_text
\* was called and returned.
get_item_text_occurrences(item, local, fs) ==
  LET key == <<item.file, item.line>> IN
  IF key \in local.items
  THEN [out |-> "empty", files |-> local.files, items |-> local.items, read |-> FALSE]
  ELSE IF item.file \notin local.files /\ fs[item.file] = "missing"
  THEN [out |-> "empty", files |-> local.files, items |-> local.items \cup {key},
        read |-> FALSE]
  ELSE IF item.file \notin local.files /\ fs[item.file] = "undecodable"
  THEN [out |-> "UnicodeDecodeError", files |-> local.files, items |-> local.items,
        read |-> FALSE]
  ELSE LET parsed == parse_item_block_occurrences(GcText, item.line) IN
       [out |-> parsed,
        files |-> local.files \cup {item.file},
        items |-> IF parsed = "empty" THEN local.items \cup {key} ELSE local.items,
        read |-> item.file \notin local.files]

\* seen.add(key); occurrences.append(occ), unless the key is in seen
OccKey(occ) == <<occ.file, occ.line, occ.column, occ.field, occ.context>>

AddOcc(st, occ) ==
  IF OccKey(occ) \in st.seen THEN st
  ELSE [occs |-> Append(st.occs, occ), seen |-> st.seen \cup {OccKey(occ)}]

\* An occurrence dict; tier and item are not in the dict: they record which
\* branch emitted it ("text", "precise": a position the compiler gave for the
\* field or chain, "item": the item's own position) and for which item of the list.
Occ(file, line, column, context, field, tier, n) ==
  [file |-> file, line |-> line, column |-> column, context |-> context,
   field |-> field, tier |-> tier, item |-> n]

keep_all_nodes(nodes, hasRelations) == nodes

\* _extract_chain_codes for a chain without a relations attribute
extract_chain_codes(nodes, hasRelations) ==
  IF hasRelations /\ Len(nodes) >= 3 /\ Len(nodes) % 2 = 1
  THEN [i \in 1..((Len(nodes) + 1) \div 2) |-> nodes[2 * i - 1]]
  ELSE nodes

\* _value_contains_code
value_contains_code(vals, code) ==
  \E i \in 1..Len(vals) : er_normalize_code(vals[i]) = er_normalize_code(code)

\* ' '.join(vals): where the i-th value starts
RECURSIVE JoinOffset(_, _)
JoinOffset(vals, i) ==
  IF i = 1 THEN 0 ELSE JoinOffset(vals, i - 1) + Len(vals[i - 1]) + 1

\* _extract_field_location: field_locations, else the item's location
extract_field_location(item, field) ==
  IF field.loc THEN <<FieldLocLine(item), FieldLocColumn(item)>>
  ELSE <<ItemLine(item), ItemColumn(item)>>

\* The extra_fields loop for a field that is not a chain field: one occurrence
\* per token of the value that matches (_find_code_in_field_value).
RECURSIVE FieldTokens(_, _, _, _, _, _)
FieldTokens(st, item, n, field, code, i) ==
  IF i > Len(field.vals) THEN st
  ELSE LET loc == extract_field_location(item, field)
           occ == Occ(item.file, loc[1], loc[2] + JoinOffset(field.vals, i), "code",
                      field.name, IF field.loc THEN "precise" ELSE "item", n)
       IN  FieldTokens(
             IF er_normalize_code(field.vals[i]) = er_normalize_code(code)
             THEN AddOcc(st, occ) ELSE st,
             item, n, field, code, i + 1)

RECURSIVE ExtraFieldsLoop(_, _, _, _, _)
ExtraFieldsLoop(st, item, n, code, i) ==
  IF i > Len(item.extra) THEN st
  ELSE ExtraFieldsLoop(
         IF value_contains_code(item.extra[i].vals, code)
         THEN FieldTokens(st, item, n, item.extra[i], code, 1) ELSE st,
         item, n, code, i + 1)

\* The item.chains loop
RECURSIVE ChainsLoop(_, _, _, _, _)
ChainsLoop(st, item, n, code, i) ==
  IF i > Len(item.chains) THEN st
  ELSE LET chain == item.chains[i]
           codes == extract_chain_codes(chain.nodes, GcChainSpecHasRelations)
           hit == \E j \in 1..Len(codes) :
                    er_normalize_code(codes[j]) = er_normalize_code(code)
           occ == IF chain.loc
                  THEN Occ(item.file, ChainLocLine(item), ChainLocColumn(item), "chain",
                           FCHAIN, "precise", n)
                  ELSE Occ(item.file, ItemLine(item), ItemColumn(item), "chain",
                           FCHAIN, "item", n)
       IN  ChainsLoop(IF hit THEN AddOcc(st, occ) ELSE st, item, n, code, i + 1)

\* The item.codes fallback, with its already_covered test
already_covered(occs, item) ==
  \E i \in 1..Len(occs) :
    /\ occs[i].file = item.file
    /\ occs[i].field \in {FCODE, FCODES}
    /\ <<occs[i].line, occs[i].column>> # <<ItemLine(item), ItemColumn(item)>>

CodesListFallback(st, item, n, code) ==
  IF /\ \E i \in 1..Len(item.codes) :
          er_normalize_code(item.codes[i]) = er_normalize_code(code)
     /\ ~already_covered(st.occs, item)
  THEN AddOcc(st, Occ(item.file, ItemLine(item), ItemColumn(item), "code", FCODE,
                      "item", n))
  ELSE st

\* The body of "for item in items" once the text tier found nothing
CompilerDriven(st, item, n, code) ==
  CodesListFallback(ChainsLoop(ExtraFieldsLoop(st, item, n, code, 1), item, n, code, 1),
                    item, n, code)

MaxGcItems == 2

GcNoCode == <<>>
GcEmptyCaches == [files |-> {}, items |-> {}]

\* get_codes up to the loop over code_usage
GcInit ==
  /\ gcPc = "build"
  /\ gcError = "none"
  /\ gcFs \in [GcFiles -> GcFileKinds]
  /\ gcFs["f2"] # "undecodable"
  /\ gcCode = GcNoCode
  /\ gcDone = {}
  /\ gcItems = <<>>
  /\ gcOccs = <<>>
  /\ gcSeen = {}
  /\ gcShared = GcEmptyCaches
  /\ gcLocal = GcLocalOf(GcEmptyCaches)
  /\ gcReads = [f \in GcFiles |-> 0]
  /\ gcCodes = <<>>
  /\ gcSteps = 0

\* No build is running (the other specifications)
GcIdle ==
  /\ gcPc = "idle"
  /\ gcError = "none"
  /\ gcFs = [f \in GcFiles |-> "missing"]
  /\ gcCode = GcNoCode
  /\ gcDone = {}
  /\ gcItems = <<>>
  /\ gcOccs = <<>>
  /\ gcSeen = {}
  /\ gcShared = GcEmptyCaches
  /\ gcLocal = GcLocalOf(GcEmptyCaches)
  /\ gcReads = [f \in GcFiles |-> 0]
  /\ gcCodes = <<>>
  /\ gcSteps = 0

\* for code, items in code_usage.items(): the call _build_code_occurrences(code, ...)
GcStartCode ==
  /\ gcPc = "build"
  /\ gcCode = GcNoCode
  /\ \E code \in GcCodeKeys \ gcDone : gcCode' = code
  /\ gcItems' = <<>>
  /\ gcOccs' = <<>>
  /\ gcSeen' = {}
  /\ gcLocal' = GcLocalOf(gcShared)
  /\ UNCHANGED <<gcPc, gcError, gcFs, gcDone, gcShared, gcReads, gcCodes, gcSteps, gcOthers>>

\* for item in items: one pass of the loop body
GcItem ==
  /\ gcPc = "build"
  /\ gcCode # GcNoCode
  /\ gcSteps < MaxGcItems
  /\ \E item \in GcItemConfigs :
       LET n == Len(gcItems) + 1
           t == IF item.located
                THEN get_item_text_occurrences(item, gcLocal, gcFs)
                ELSE [out |-> "skip", files |-> gcLocal.files, items |-> gcLocal.items,
                      read |-> FALSE]
           st == IF t.out = "empty"
                 THEN CompilerDriven([occs |-> gcOccs, seen |-> gcSeen], item, n, gcCode)
                 ELSE [occs |-> gcOccs, seen |-> gcSeen]
       IN  /\ gcItems' = Append(gcItems, item)
           /\ gcOccs' = st.occs
           /\ gcSeen' = st.seen
           /\ gcLocal' = [gcLocal EXCEPT !.files = t.files, !.items = t.items]
           /\ gcShared' = [files |-> IF gcLocal.aliasFiles THEN t.files ELSE gcShared.files,
                           items |-> IF gcLocal.aliasItems THEN t.items ELSE gcShared.items]
           /\ gcReads' = IF t.read THEN [gcReads EXCEPT ![item.file] = @ + 1] ELSE gcReads
           /\ gcPc' = IF t.out \in {"NameError", "UnicodeDecodeError"} THEN "raised" ELSE "build"
           /\ gcError' = IF t.out \in {"NameError", "UnicodeDecodeError"} THEN t.out ELSE "none"
  /\ gcSteps' = gcSteps + 1
  /\ UNCHANGED <<gcFs, gcCode, gcDone, gcCodes, gcOthers>>

\* codes.append({"code", "usageCount", "ontologyDefined", "occurrences"})
GcEndCode ==
  /\ gcPc = "build"
  /\ gcCode # GcNoCode
  /\ gcCodes' = Append(gcCodes,
                       [code |-> gcCode, usageCount |-> Len(gcItems),
                        ontologyDefined |-> er_normalize_code(gcCode) \in GcOntology,
                        occurrences |-> gcOccs])
  /\ gcDone' = gcDone \cup {gcCode}
  /\ gcCode' = GcNoCode
  /\ gcItems' = <<>>
  /\ gcOccs' = <<>>
  /\ gcSeen' = {}
  /\ UNCHANGED <<gcPc, gcError, gcFs, gcShared, gcLocal, gcReads, gcSteps, gcOthers>>

\* return {"success": True, "codes": codes}
GcReturn ==
  /\ gcPc = "build"
  /\ gcCode = GcNoCode
  /\ gcPc' = "done"
  /\ UNCHANGED <<gcError, gcFs, gcCode, gcDone, gcItems, gcOccs, gcSeen, gcShared, gcLocal,
                 gcReads, gcCodes, gcSteps, gcOthers>>

GcNext ==
  \/ GcStartCode
  \/ GcItem
  \/ GcEndCode
  \/ GcReturn

(***************************************************************************)
(* explorer_requests.py: the codes of a chain, from the compiled value     *)
(* (_chain_nodes, _extract_chain_codes) and from the text of the line      *)
(* (_strip_comment, _split_with_offsets, _segment_to_token,                *)
(* _iter_chain_tokens)                                                     *)
(***************************************************************************)
\* "->" at position p of text
ArrowAt(text, p) == p + 1 <= Len(text) /\ text[p] = "-" /\ text[p + 1] = ">"

\* text.find("->", start), positions from 1; 0 when there is none
FindArrow(text, start) ==
  IF \E p \in start..Len(text) : ArrowAt(text, p)
  THEN CHOOSE p \in start..Len(text) :
         ArrowAt(text, p) /\ \A q \in start..(p - 1) : ~ArrowAt(text, q)
  ELSE 0

\* _strip_comment
strip_comment(text) ==
  IF \E p \in 1..Len(text) : text[p] = "#"
  THEN LET idx == CHOOSE p \in 1..Len(text) :
                    text[p] = "#" /\ \A q \in 1..(p - 1) : text[q] # "#"
       IN  SubSeq(text, 1, idx - 1)
  ELSE text

\* _split_with_offsets(text, "->") from position start on: the segments, each
\* with the offset (from 0) where it starts
RECURSIVE split_with_offsets(_, _)
split_with_offsets(text, start) ==
  LET idx == FindArrow(text, start) IN
  IF idx = 0
  THEN << [text |-> SubSeq(text, start, Len(text)), start |-> start - 1] >>
  ELSE << [text |-> SubSeq(text, start, idx - 1), start |-> start - 1] >>
         \o split_with_offsets(text, idx + 2)

\* None of _segment_to_token
NoToken == [text |-> <<>>, start |-> -1]

\* _segment_to_token: the segment without blanks around it and without what
\* comes before its last "::"
segment_to_token(segment, segment_start) ==
  LET leading_ws == Len(segment) - Len(LStrip(segment))
      trimmed == Strip(segment)
      QualAt(p) == p + 1 <= Len(trimmed) /\ trimmed[p] = ":" /\ trimmed[p + 1] = ":"
  IN  IF trimmed = <<>> THEN NoToken
      ELSE IF \E p \in 1..Len(trimmed) : QualAt(p)
      THEN LET last == CHOOSE p \in 1..Len(trimmed) :
                         QualAt(p) /\ \A q \in (p + 1)..Len(trimmed) : ~QualAt(q)
               rest == SubSeq(trimmed, last + 2, Len(trimmed))
               idx == (last + 1) + (Len(rest) - Len(LStrip(rest)))
           IN  IF idx < Len(trimmed)
               THEN [text |-> Strip(rest), start |-> segment_start + leading_ws + idx]
               ELSE [text |-> trimmed, start |-> segment_start + leading_ws]
      ELSE [text |-> trimmed, start |-> segment_start + leading_ws]

\* _iter_chain_tokens
iter_chain_tokens(value_text, base_offset, has_relations) ==
  LET segments == split_with_offsets(strip_comment(value_text), 1)
      tokens == [i \in 1..Len(segments) |->
                   segment_to_token(segments[i].text, segments[i].start)]
      nodes == SelectSeq(tokens, LAMBDA t : t # NoToken)
      kept == IF has_relations /\ Len(nodes) >= 3 /\ Len(nodes) % 2 = 1
              THEN [i \in 1..((Len(nodes) + 1) \div 2) |-> nodes[2 * i - 1]]
              ELSE nodes
  IN  [i \in 1..Len(kept) |->
         [text |-> kept[i].text, start |-> base_offset + kept[i].start]]

\* The strings of a list that are not blank
NotBlank(nodes) == SelectSeq(nodes, LAMBDA n : Strip(n) # <<>>)

\* _chain_nodes. A chain is None, a string, a dict with "nodes" or with the
\* keys of a triple, an object with a nodes attribute, a list, or an object
\* that has none of these ("other")
er_chain_nodes(chain) ==
  CASE chain.shape = "none" -> <<>>
    [] chain.shape = "str" ->
         IF FindArrow(chain.text, 1) # 0
         THEN LET segments == split_with_offsets(chain.text, 1)
              IN  NotBlank([i \in 1..Len(segments) |-> Strip(segments[i].text)])
         ELSE <<chain.text>>
    [] chain.shape \in {"dictnodes", "dicttriple", "object", "list"} -> NotBlank(chain.nodes)
    [] OTHER -> <<>>

\* _extract_chain_codes
extract_chain_codes_of_chain(chain, has_relations) ==
  LET found == NotBlank(er_chain_nodes(chain))
      nodes == [i \in 1..Len(found) |-> Strip(found[i])]
  IN  IF nodes = <<>> THEN <<>>
      ELSE IF has_relations /\ chain.shape = "object" /\ chain.relations # <<>>
      THEN nodes
      ELSE extract_chain_codes(nodes, has_relations)

(***************************************************************************)
(* Chain values                                                            *)
(***************************************************************************)
MaxChainNodes == 5

ChNodeVals == {<<"a">>, <<"r">>, <<" ", "b">>, <<" ">>}
ChQualified == <<"q", ":", ":", "c">>
ChComments == {<<>>, <<"#", "-", ">", "a">>}

RECURSIVE JoinArrow(_)
JoinArrow(parts) ==
  IF parts = <<>> THEN <<>>
  ELSE IF Len(parts) = 1 THEN parts[1]
  ELSE parts[1] \o <<"-", ">">> \o JoinArrow(Tail(parts))

SeqsUpTo(S, n) == UNION { [1..k -> S] : k \in 0..n }

\* A chain as the compiler gives it: parts are the strings it is made of
ChChain(shape, parts, relations) ==
  [shape |-> shape, parts |-> parts, relations |-> relations,
   text |-> IF shape = "str" THEN JoinArrow(parts) ELSE <<>>,
   nodes |-> IF shape = "str" THEN <<>> ELSE parts]

ChChains ==
  { ChChain(shape, parts, <<>>) :
      shape \in {"str", "dictnodes", "list", "object"}, parts \in SeqsUpTo(ChNodeVals, MaxChainNodes) }
  \cup { ChChain("object", parts, << <<"r">> >>) : parts \in SeqsUpTo(ChNodeVals, MaxChainNodes) }
  \cup { ChChain("dicttriple", parts, <<>>) : parts \in [1..3 -> ChNodeVals] }
  \cup { ChChain(shape, <<>>, <<>>) : shape \in {"none", "other"} }

\* The value of a chain field as a line of a file has it
ChTexts ==
  { [shape |-> "text", parts |-> parts, relations |-> <<>>,
     text |-> JoinArrow(parts) \o comment, nodes |-> <<>>] :
      parts \in SeqsUpTo(ChNodeVals \cup {ChQualified}, MaxChainNodes),
      comment \in ChComments }

ChInit ==
  /\ chIn \in [chain : ChChains \cup ChTexts, has_relations : BOOLEAN]
  /\ chOp = "start"
  /\ chOut = <<>>

\* No chain is looked at (the other specifications)
ChIdle ==
  /\ chIn = [chain |-> ChChain("none", <<>>, <<>>), has_relations |-> FALSE]
  /\ chOp = "idle"
  /\ chOut = <<>>

\* _extract_chain_codes(chain, field_spec)
ChExtract ==
  /\ chOp = "start"
  /\ chIn.chain.shape # "text"
  /\ chOut' = extract_chain_codes_of_chain(chIn.chain, chIn.has_relations)
  /\ chOp' = "extract"
  /\ UNCHANGED <<chIn, chOthers>>

\* _iter_chain_tokens(value_text, base_offset, has_relations)
ChTokens ==
  /\ chOp = "start"
  /\ chIn.chain.shape = "text"
  /\ \E base_offset \in {0, 2} :
       chOut' = iter_chain_tokens(chIn.chain.text, base_offset, chIn.has_relations)
  /\ chOp' = "tokens"
  /\ UNCHANGED <<chIn, chOthers>>

ChNext ==
  \/ ChExtract
  \/ ChTokens

(***************************************************************************)
(* explorer_requests.py: the tokens of one line of an item block           *)
(* (_iter_code_tokens, _record_value_occurrences) and the rescan of a      *)
(* block that holds the line (_parse_item_block_occurrences)               *)
(***************************************************************************)
\* text.find(",", start), positions from 1; 0 when there is none
FindComma(text, start) ==
  IF \E p \in start..Len(text) : text[p] = ","
  THEN CHOOSE p \in start..Len(text) :
         text[p] = "," /\ \A q \in start..(p - 1) : text[q] # ","
  ELSE 0

\* The loop of _iter_code_tokens from position start on
RECURSIVE code_tokens_from(_, _, _)
code_tokens_from(text, start, base_offset) ==
  LET comma_idx == FindComma(text, start)
      segment == SubSeq(text, start, IF comma_idx = 0 THEN Len(text) ELSE comma_idx - 1)
      token_text == Strip(segment)
      leading_ws == Len(segment) - Len(LStrip(segment))
      found == IF token_text # <<>>
               THEN << [text |-> token_text, start |-> base_offset + (start - 1) + leading_ws] >>
               ELSE <<>>
  IN  IF comma_idx = 0 THEN found
      ELSE found \o code_tokens_from(text, comma_idx + 1, base_offset)

\* _iter_code_tokens
iter_code_tokens(value_text, base_offset) ==
  code_tokens_from(strip_comment(value_text), 1, base_offset)

\* _record_value_occurrences: the occurrences it appends, each with the key it
\* is filed under
record_value_occurrences(value_text, base_offset, line_idx, is_chain, has_relations) ==
  LET tokens == IF is_chain THEN iter_chain_tokens(value_text, base_offset, has_relations)
                ELSE iter_code_tokens(value_text, base_offset)
      kept == SelectSeq(tokens, LAMBDA t : er_normalize_code(t.text) # <<>>)
  IN  [i \in 1..Len(kept) |->
         [key |-> er_normalize_code(kept[i].text),
          line |-> line_idx + 1,
          column |-> kept[i].start + 1,
          context |-> IF is_chain THEN "chain" ELSE "code"]]

(***************************************************************************)
(* Lines of an item block                                                  *)
(***************************************************************************)
MaxTokParts == 3

TkPartVals == {<<"a">>, <<" ", "B">>, <<" ">>, ChQualified}

RECURSIVE JoinComma(_)
JoinComma(parts) ==
  IF parts = <<>> THEN <<>>
  ELSE IF Len(parts) = 1 THEN parts[1]
  ELSE parts[1] \o <<",">> \o JoinComma(Tail(parts))

\* What stands before the value: the label of a field line, or the indentation
\* of a continuation line (which is part of the value passed, with offset 0)
TkLabel == <<" ", "C", ":">>
TkIndent == <<" ", " ">>

TkInputs ==
  { [line |-> (IF first THEN TkLabel ELSE TkIndent)
                \o (IF is_chain THEN JoinArrow(parts) ELSE JoinComma(parts)) \o comment,
     first |-> first, is_chain |-> is_chain, has_relations |-> has_relations] :
      first \in BOOLEAN, is_chain \in BOOLEAN, has_relations \in BOOLEAN,
      parts \in SeqsUpTo(TkPartVals, MaxTokParts), comment \in ChComments }

TkNoCall == [op |-> "none", raised |-> FALSE, occ |-> <<>>]

TkInit ==
  /\ tkIn \in TkInputs
  /\ tkOut = TkNoCall

\* No line is scanned (the other specifications)
TkIdle ==
  /\ tkIn = [line |-> <<>>, first |-> FALSE, is_chain |-> FALSE, has_relations |-> FALSE]
  /\ tkOut = [TkNoCall EXCEPT !.op = "idle"]

\* _record_value_occurrences for the line at index 1 of the file, as
\* _parse_item_block_occurrences calls it: the value and its offset for a
\* field line, the whole line and 0 for a continuation line
TkRecord ==
  /\ tkOut.op = "none"
  /\ LET base_offset == IF tkIn.first THEN Len(TkLabel) ELSE 0
         value_text == SubSeq(tkIn.line, base_offset + 1, Len(tkIn.line))
     IN  tkOut' = [op |-> "record", raised |-> FALSE,
                   occ |-> record_value_occurrences(value_text, base_offset, 1,
                                                    tkIn.is_chain, tkIn.has_relations)]
  /\ UNCHANGED <<tkIn, tkOthers>>

\* _parse_item_block_occurrences(lines, 0, ...) for the block ITEM, the line,
\* END ITEM
TkParse ==
  /\ tkOut.op = "none"
  /\ tkIn.first
  /\ LET stripped == Strip(tkIn.line)
         kind == IF stripped = <<>> THEN "blank"
                 ELSE IF Head(stripped) = "#" THEN "comment" ELSE "field"
         lines == <<Ln("item", 0), Ln(kind, Len(tkIn.line) - Len(LStrip(tkIn.line))),
                    Ln("end", 0)>>
     IN  tkOut' = [op |-> "parse",
                   raised |-> parse_item_block_occurrences(lines, 1) = "NameError",
                   occ |-> <<>>]
  /\ UNCHANGED <<tkIn, tkOthers>>

TkNext ==
  \/ TkRecord
  \/ TkParse

(***************************************************************************)
(* rename.py: the patterns of _build_code_pattern and _rename_bibref       *)
(***************************************************************************)
Digits == {"0", "1", "2", "3", "4", "5", "6", "7", "8", "9"}

\* \w
IsWordChar(c) ==
  \/ \E i \in 1..Len(UpperChars) : c = UpperChars[i] \/ c = LowerChars[i]
  \/ c \in Digits
  \/ c = "_"

\* [\w.-]
IsIdentChar(c) == IsWordChar(c) \/ c = "." \/ c = "-"

\* _normalize_code of rename.py: " ".join(code.strip().split()).lower()
rn_normalize_code(word) == Lower(SplitJoin(word))

\* _normalize_bibref: lstrip("@").strip().lower()
RECURSIVE LStripAt(_)
LStripAt(s) == IF s # <<>> /\ Head(s) = "@" THEN LStripAt(Tail(s)) ELSE s

normalize_bibref(word) == Lower(Strip(LStripAt(word)))

\* A compiled pattern: a literal prefix, the alternatives in the order the
\* pattern lists them, and whether (?<![\w.-]) opens it. Every pattern ends
\* with (?![\w.-]) and is compiled with re.IGNORECASE.
build_code_pattern(old_code_raw, old_code_key) ==
  [prefix |-> <<>>, behind |-> TRUE,
   alts |-> IF old_code_raw # old_code_key THEN <<old_code_raw, old_code_key>>
            ELSE <<old_code_raw>>]

bibref_pattern(old_bibref) ==
  [prefix |-> <<"@">>, behind |-> FALSE, alts |-> <<old_bibref>>]

PatNone == [prefix |-> <<>>, behind |-> FALSE, alts |-> <<>>]

\* The literal lit stands at position p of line (ignoring case)
LitAt(line, p, lit) ==
  /\ p + Len(lit) - 1 <= Len(line)
  /\ \A i \in 1..Len(lit) : LowerChar(line[p + i - 1]) = LowerChar(lit[i])

\* (?<![\w.-]) at position p
NotPrecededByIdent(line, p) == p = 1 \/ ~IsIdentChar(line[p - 1])

NoLookahead(line, stop) == TRUE

\* (?![\w.-]) at position stop
NotFollowedByIdent(line, stop) == stop > Len(line) \/ ~IsIdentChar(line[stop])

\* The alternatives that match at p, lookahead included
AltsAt(line, p, pat) ==
  { k \in 1..Len(pat.alts) :
      /\ LitAt(line, p, pat.prefix \o pat.alts[k])
      /\ NotFollowedByIdent(line, p + Len(pat.prefix) + Len(pat.alts[k])) }

\* The match that starts at p: where it stops, or 0 when there is none. The
\* first alternative that lets the whole pattern match is taken.
MatchStop(line, p, pat) ==
  IF (pat.behind => NotPrecededByIdent(line, p)) /\ AltsAt(line, p, pat) # {}
  THEN LET k == CHOOSE k \in AltsAt(line, p, pat) : \A j \in AltsAt(line, p, pat) : k <= j
       IN  p + Len(pat.prefix) + Len(pat.alts[k])
  ELSE 0

\* pattern.finditer(line): the matches from left to right, without overlap
RECURSIVE FindIter(_, _, _)
FindIter(line, pat, p) ==
  IF p > Len(line) THEN <<>>
  ELSE IF MatchStop(line, p, pat) # 0
       THEN <<[start |-> p, stop |-> MatchStop(line, p, pat)]>>
              \o FindIter(line, pat, MatchStop(line, p, pat))
       ELSE FindIter(line, pat, p + 1)

\* The word under the cursor (characters of [@\w._-]) and the scanned strings
PatChars == {"a", "A", "b", "-", " ", "@"}
PatWords == {<<"a">>, <<"A">>, <<"a", "b">>, <<"@", "a">>, <<"@", "A", "b">>}
MaxPatLine == 4

PatLines == UNION { [1..n -> PatChars] : n \in 0..MaxPatLine }

PatIdle ==
  /\ patPc = "idle"
  /\ patPattern = PatNone
  /\ patLine = <<>>
  /\ patMatches = <<>>

PatInit ==
  /\ patPc = "start"
  /\ patPattern = PatNone
  /\ patLine = <<>>
  /\ patMatches = <<>>

\* compute_rename for a word that starts with "@": _rename_bibref
PatBuildBibref ==
  /\ patPc = "start"
  /\ \E word \in PatWords :
       /\ Head(word) = "@"
       /\ patPattern' = bibref_pattern(normalize_bibref(word))
  /\ patPc' = "built"
  /\ UNCHANGED <<patLine, patMatches, patOthers>>

\* compute_rename for any other word: _rename_code
PatBuildCode ==
  /\ patPc = "start"
  /\ \E word \in PatWords :
       /\ Head(word) # "@"
       /\ patPattern' = build_code_pattern(word, rn_normalize_code(word))
  /\ patPc' = "built"
  /\ UNCHANGED <<patLine, patMatches, patOthers>>

\* for match in pattern.finditer(...)
PatScan ==
  /\ patPc = "built"
  /\ \E line \in PatLines :
       /\ patLine' = line
       /\ patMatches' = FindIter(line, patPattern, 1)
  /\ patPc' = "scanned"
  /\ UNCHANGED <<patPattern, patOthers>>

PatNext ==
  \/ PatBuildBibref
  \/ PatBuildCode
  \/ PatScan

(***************************************************************************)
(* rename.py: _find_and_replace_in_syn and _find_and_replace_in_syno       *)
(*                                                                         *)
(* A file is followed line by line. A line is what the scanner can tell    *)
(* about it: its kind, its indentation and, for a "name: value" line, the  *)
(* name. Every line holds the old code wherever the pattern may look, so   *)
(* every scanned part yields an edit.                                      *)
(***************************************************************************)
\* Field names, as written in the template or in a file
NOrd == <<"o", "r", "d">>
NOrdCaps == <<"O", "R", "D">>
NCad == <<"C", "a", "d">>
NNota == <<"n", "o", "t", "a">>
NPai == <<"p", "a", "i">>
NDesc == <<"d", "e", "s", "c">>

\* template.field_specs: name -> (scope, type)
ScanTemplate ==
  { [name |-> NOrd,  scope |-> "ITEM",     type |-> "CODE"],
    [name |-> NCad,  scope |-> "ITEM",     type |-> "CHAIN"],
    [name |-> NNota, scope |-> "ITEM",     type |-> "TEXT"],
    [name |-> NPai,  scope |-> "ONTOLOGY", type |-> "CHAIN"],
    [name |-> NDesc, scope |-> "ONTOLOGY", type |-> "TEXT"] }

all_field_names(template) == { Lower(spec.name) : spec \in template }

ontology_code_fields(template) ==
  { Lower(spec.name) : spec \in { t \in template : t.scope = "ONTOLOGY" /\ t.type \in {"CODE", "CHAIN"} } }

item_code_fields(template) ==
  { Lower(spec.name) : spec \in { t \in template : t.scope = "ITEM" /\ t.type = "CODE" } }

item_chain_fields(template) ==
  { Lower(spec.name) : spec \in { t \in template : t.scope = "ITEM" /\ t.type = "CHAIN" } }

\* current_field_indent = None
NoIndent == -1

SLine(kind, indent, name) == [kind |-> kind, indent |-> indent, name |-> name]

\* The lines of a .syn file. "ITEM": stripped.upper() starts with "ITEM ";
\* "END ITEM": it starts with "END ITEM"; "field": the line matches
\* ^(\s*)([\w._-]+)(\s*:)\s*(.*)$; "blank" and "comment": stripped is empty or
\* starts with "#"; "SOURCE" (a SOURCE header) and "text" are any other line.
SynLines ==
  { SLine("ITEM", 0, <<>>), SLine("END ITEM", 0, <<>>), SLine("SOURCE", 0, <<>>),
    SLine("blank", 0, <<>>), SLine("comment", 1, <<>>),
    SLine("text", 1, <<>>), SLine("text", 2, <<>>) }
  \cup { SLine("field", 1, n) : n \in {NOrdCaps, NCad, NNota, NPai} }

\* The lines of a .syno file
SynoLines ==
  { SLine("ONTOLOGY", 0, <<>>), SLine("END ONTOLOGY", 0, <<>>),
    SLine("blank", 0, <<>>), SLine("comment", 1, <<>>),
    SLine("text", 1, <<>>), SLine("text", 2, <<>>) }
  \cup { SLine("field", 1, n) : n \in {NOrdCaps, NPai, NDesc} }

MaxScanLines == 4

Edit(n, part) == [line |-> n, part |-> part]

ScanIdle ==
  /\ scanFile = "none"
  /\ scanLines = <<>>
  /\ scanIn = FALSE
  /\ scanCodeField = FALSE
  /\ scanIndent = NoIndent
  /\ scanEdits = {}

\* _rename_code picks the scanner by the suffix; the scanner starts
ScanInit ==
  /\ scanFile \in {"syn", "syno"}
  /\ scanLines = <<>>
  /\ scanIn = FALSE
  /\ scanCodeField = FALSE
  /\ scanIndent = NoIndent
  /\ scanEdits = {}

\* One pass of "for line_num, line in enumerate(lines)" of _find_and_replace_in_syn
ScanSynLine ==
  /\ scanFile = "syn"
  /\ Len(scanLines) < MaxScanLines
  /\ \E line \in SynLines :
       LET n == Len(scanLines) + 1
           isCode == Lower(line.name) \in item_code_fields(ScanTemplate)
                       \/ Lower(line.name) \in item_chain_fields(ScanTemplate)
       IN
       /\ scanLines' = Append(scanLines, line)
       /\ IF line.kind = "ITEM"
          THEN scanIn' = TRUE /\ scanCodeField' = FALSE /\ scanIndent' = NoIndent
               /\ UNCHANGED scanEdits
          ELSE IF line.kind = "END ITEM"
          THEN scanIn' = FALSE /\ scanCodeField' = FALSE /\ scanIndent' = NoIndent
               /\ UNCHANGED scanEdits
          ELSE IF ~scanIn
          THEN UNCHANGED <<scanIn, scanCodeField, scanIndent, scanEdits>>
          ELSE IF line.kind = "field"
          THEN /\ scanCodeField' = isCode
               /\ scanIndent' = IF isCode THEN line.indent ELSE NoIndent
               /\ scanEdits' = IF isCode THEN scanEdits \cup {Edit(n, "value")} ELSE scanEdits
               /\ UNCHANGED scanIn
          ELSE IF line.kind \in {"blank", "comment"}
          THEN UNCHANGED <<scanIn, scanCodeField, scanIndent, scanEdits>>
          ELSE IF scanCodeField
          THEN IF scanIndent # NoIndent /\ line.indent <= scanIndent
               THEN scanCodeField' = FALSE /\ scanIndent' = NoIndent
                    /\ UNCHANGED <<scanIn, scanEdits>>
               ELSE scanEdits' = scanEdits \cup {Edit(n, "line")}
                    /\ UNCHANGED <<scanIn, scanCodeField, scanIndent>>
          ELSE UNCHANGED <<scanIn, scanCodeField, scanIndent, scanEdits>>
  /\ UNCHANGED <<scanFile, scanOthers>>

\* One pass of the loop of _find_and_replace_in_syno
ScanSynoLine ==
  /\ scanFile = "syno"
  /\ Len(scanLines) < MaxScanLines
  /\ \E line \in SynoLines :
       LET n == Len(scanLines) + 1
           isCode == Lower(line.name) \in ontology_code_fields(ScanTemplate)
       IN
       /\ scanLines' = Append(scanLines, line)
       /\ IF line.kind = "ONTOLOGY"
          THEN scanIn' = TRUE /\ scanCodeField' = FALSE /\ scanIndent' = NoIndent
               /\ scanEdits' = scanEdits \cup {Edit(n, "header name")}
          ELSE IF line.kind = "END ONTOLOGY"
          THEN scanIn' = FALSE /\ scanCodeField' = FALSE /\ scanIndent' = NoIndent
               /\ UNCHANGED scanEdits
          ELSE IF ~scanIn
          THEN UNCHANGED <<scanIn, scanCodeField, scanIndent, scanEdits>>
          ELSE IF line.kind = "field"
          THEN /\ scanCodeField' = isCode
               /\ scanIndent' = IF isCode THEN line.indent ELSE NoIndent
               /\ scanEdits' = IF isCode THEN scanEdits \cup {Edit(n, "value")} ELSE scanEdits
               /\ UNCHANGED scanIn
          ELSE IF line.kind \in {"blank", "comment"}
          THEN scanCodeField' = FALSE /\ scanIndent' = NoIndent
               /\ UNCHANGED <<scanIn, scanEdits>>
          ELSE IF scanCodeField
          THEN IF scanIndent # NoIndent /\ line.indent <= scanIndent
               THEN scanCodeField' = FALSE /\ scanIndent' = NoIndent
                    /\ UNCHANGED <<scanIn, scanEdits>>
               ELSE scanEdits' = scanEdits \cup {Edit(n, "line")}
                    /\ UNCHANGED <<scanIn, scanCodeField, scanIndent>>
          ELSE UNCHANGED <<scanIn, scanCodeField, scanIndent, scanEdits>>
  /\ UNCHANGED <<scanFile, scanOthers>>

ScanNext ==
  \/ ScanSynLine
  \/ ScanSynoLine

(***************************************************************************)
(* rename.py: _rename_code and _rename_bibref over the files of a          *)
(* workspace                                                               *)
(*                                                                         *)
(* A line is an SLine with two more facts: has (the old code stands where  *)
(* the code pattern can match) and bib (@old_bibref stands on the line).   *)
(***************************************************************************)
RLine(kind, indent, name, has, bib) ==
  [kind |-> kind, indent |-> indent, name |-> name, has |-> has, bib |-> bib]

\* The scanner's variables before the first line
ScanStart == [inBlock |-> FALSE, codeField |-> FALSE, indent |-> NoIndent, edits |-> <<>>]

\* edits.append(TextEdit(...)) for the matches of one line
AddEdits(st, line, n) == IF line.has THEN Append(st.edits, n) ELSE st.edits

\* One pass of the loop of _find_and_replace_in_syn
syn_step(st, line, n, code_fields, chain_fields) ==
  LET isCode == Lower(line.name) \in code_fields \/ Lower(line.name) \in chain_fields IN
  IF line.kind = "ITEM"
  THEN [st EXCEPT !.inBlock = TRUE, !.codeField = FALSE, !.indent = NoIndent]
  ELSE IF line.kind = "END ITEM"
  THEN [st EXCEPT !.inBlock = FALSE, !.codeField = FALSE, !.indent = NoIndent]
  ELSE IF ~st.inBlock THEN st
  ELSE IF line.kind = "field"
  THEN [st EXCEPT !.codeField = isCode,
                  !.indent = IF isCode THEN line.indent ELSE NoIndent,
                  !.edits = IF isCode THEN AddEdits(st, line, n) ELSE st.edits]
  ELSE IF line.kind \in {"blank", "comment"} THEN st
  ELSE IF st.codeField
  THEN IF st.indent # NoIndent /\ line.indent <= st.indent
       THEN [st EXCEPT !.codeField = FALSE, !.indent = NoIndent]
       ELSE [st EXCEPT !.edits = AddEdits(st, line, n)]
  ELSE st

\* One pass of the loop of _find_and_replace_in_syno
syno_step(st, line, n, code_fields) ==
  LET isCode == Lower(line.name) \in code_fields IN
  IF line.kind = "ONTOLOGY"
  THEN [st EXCEPT !.inBlock = TRUE, !.codeField = FALSE, !.indent = NoIndent,
                  !.edits = AddEdits(st, line, n)]
  ELSE IF line.kind = "END ONTOLOGY"
  THEN [st EXCEPT !.inBlock = FALSE, !.codeField = FALSE, !.indent = NoIndent]
  ELSE IF ~st.inBlock THEN st
  ELSE IF line.kind = "field"
  THEN [st EXCEPT !.codeField = isCode,
                  !.indent = IF isCode THEN line.indent ELSE NoIndent,
                  !.edits = IF isCode THEN AddEdits(st, line, n) ELSE st.edits]
  ELSE IF line.kind \in {"blank", "comment"}
  THEN [st EXCEPT !.codeField = FALSE, !.indent = NoIndent]
  ELSE IF st.codeField
  THEN IF st.indent # NoIndent /\ line.indent <= st.indent
       THEN [st EXCEPT !.codeField = FALSE, !.indent = NoIndent]
       ELSE [st EXCEPT !.edits = AddEdits(st, line, n)]
  ELSE st

\* A file on disk: "absent", "unreadable" (read_text raises OSError or
\* UnicodeDecodeError) or "text" with its lines
RFile(suffix, disk, lines) == [suffix |-> suffix, disk |-> disk, lines |-> lines]

\* _find_and_replace_in_syn: [] for a file that cannot be read
RECURSIVE SynLoop(_, _, _, _, _)
SynLoop(st, lines, n, code_fields, chain_fields) ==
  IF n > Len(lines) THEN st.edits
  ELSE SynLoop(syn_step(st, lines[n], n, code_fields, chain_fields), lines, n + 1,
               code_fields, chain_fields)

find_and_replace_in_syn(file, code_fields, chain_fields) ==
  IF file.disk # "text" THEN <<>>
  ELSE SynLoop(ScanStart, file.lines, 1, code_fields, chain_fields)

\* _find_and_replace_in_syno
RECURSIVE SynoLoop(_, _, _, _)
SynoLoop(st, lines, n, code_fields) ==
  IF n > Len(lines) THEN st.edits
  ELSE SynoLoop(syno_step(st, lines[n], n, code_fields), lines, n + 1, code_fields)

find_and_replace_in_syno(file, code_fields) ==
  IF file.disk # "text" THEN <<>> ELSE SynoLoop(ScanStart, file.lines, 1, code_fields)

\* _find_and_replace_in_file with the bibref pattern: every line is searched
find_and_replace_in_file(file) ==
  IF file.disk # "text" THEN <<>>
  ELSE LET RECURSIVE Loop(_)
           Loop(n) == IF n > Len(file.lines) THEN <<>>
                      ELSE (IF file.lines[n].bib THEN <<n>> ELSE <<>>) \o Loop(n + 1)
       IN  Loop(1)

\* The contents a .syn file comes with
SynUsage ==
  <<RLine("SOURCE", 0, <<>>, FALSE, TRUE), RLine("ITEM", 0, <<>>, FALSE, TRUE),
    RLine("field", 1, NOrdCaps, TRUE, FALSE), RLine("END ITEM", 0, <<>>, FALSE, FALSE)>>

SynChainUsage ==
  <<RLine("ITEM", 0, <<>>, FALSE, FALSE), RLine("field", 1, NCad, TRUE, FALSE),
    RLine("text", 2, <<>>, TRUE, FALSE), RLine("END ITEM", 0, <<>>, FALSE, FALSE)>>

SynSourceField ==
  <<RLine("SOURCE", 0, <<>>, FALSE, TRUE), RLine("field", 1, NOrdCaps, TRUE, FALSE)>>

SynNoteOnly ==
  <<RLine("ITEM", 0, <<>>, FALSE, FALSE), RLine("field", 1, NNota, TRUE, FALSE),
    RLine("END ITEM", 0, <<>>, FALSE, FALSE)>>

SynWithout ==
  <<RLine("ITEM", 0, <<>>, FALSE, FALSE), RLine("field", 1, NOrdCaps, FALSE, FALSE),
    RLine("END ITEM", 0, <<>>, FALSE, FALSE)>>

SynFiles ==
  { RFile("syn", "text", l) :
      l \in {SynUsage, SynChainUsage, SynSourceField, SynNoteOnly, SynWithout} }
  \cup {RFile("syn", "unreadable", <<>>), RFile("syn", "absent", <<>>)}

\* The contents a .syno file comes with
SynoDefines ==
  <<RLine("ONTOLOGY", 0, <<>>, TRUE, FALSE), RLine("field", 1, NDesc, TRUE, FALSE),
    RLine("END ONTOLOGY", 0, <<>>, FALSE, FALSE)>>

SynoOther ==
  <<RLine("ONTOLOGY", 0, <<>>, FALSE, FALSE), RLine("field", 1, NDesc, FALSE, FALSE),
    RLine("END ONTOLOGY", 0, <<>>, FALSE, FALSE)>>

SynoFiles ==
  { RFile("syno", "text", l) : l \in {SynoDefines, SynoOther} }
  \cup {RFile("syno", "unreadable", <<>>), RFile("syno", "absent", <<>>)}

RenNames == {"o1", "s1", "s2"}

\* cached_result.result.template: None or the project's template
NoTemplate == {}
RenTemplates == {NoTemplate, ScanTemplate}

\* The files of src.location and of the items' locations (_rename_bibref)
BibFileSets == SUBSET {"s1", "s2"}

AnyEdits(edits) == TRUE

\* "if edits:" of the loops that fill changes
HasEdits(edits) == edits # <<>>

\* changes: uri -> edits, for the files whose scan gave edits
ChangesOf(scanned) ==
  [f \in { g \in DOMAIN scanned : HasEdits(scanned[g]) } |-> scanned[f]]

\* _collect_files(workspace_root, ".syn") and (workspace_root, ".syno"):
\* the files that exist
collect_files(files) == { f \in DOMAIN files : files[f].disk # "absent" }

\* The loop of _rename_code over files_to_edit
CodeScan(files, template) ==
  [f \in collect_files(files) |->
     IF files[f].suffix = "syno"
     THEN find_and_replace_in_syno(files[f], ontology_code_fields(template))
     ELSE find_and_replace_in_syn(files[f], item_code_fields(template),
                                  item_chain_fields(template))]

\* The loop of _rename_bibref over files_to_edit
BibScan(files, toEdit) == [f \in toEdit |-> find_and_replace_in_file(files[f])]

NoChanges == [f \in {} |-> <<>>]

RenInit ==
  /\ rnFiles \in { fs \in [RenNames -> SynFiles \cup SynoFiles] :
                     /\ fs["o1"] \in SynoFiles
                     /\ fs["s1"] \in SynFiles
                     /\ fs["s2"] \in SynFiles }
  /\ rnTemplate \in RenTemplates
  /\ rnBib \in BibFileSets
  /\ rnOp = "none"
  /\ rnResult = "none"
  /\ rnChanges = NoChanges

\* No rename is running (the other specifications)
RenIdle ==
  /\ rnFiles = <<>>
  /\ rnTemplate = NoTemplate
  /\ rnBib = {}
  /\ rnOp = "idle"
  /\ rnResult = "none"
  /\ rnChanges = NoChanges

\* _rename_code: None without files or without changes, else WorkspaceEdit(changes)
RenameCode ==
  /\ rnOp \in {"none", "code", "bibref"}
  /\ rnOp' = "code"
  /\ LET changes == ChangesOf(CodeScan(rnFiles, rnTemplate)) IN
     IF collect_files(rnFiles) = {} \/ DOMAIN changes = {}
     THEN rnResult' = "None" /\ rnChanges' = NoChanges
     ELSE rnResult' = "WorkspaceEdit" /\ rnChanges' = changes
  /\ UNCHANGED <<rnFiles, rnTemplate, rnBib, rnOthers>>

\* _rename_bibref for a bibref that lp.sources knows
RenameBibref ==
  /\ rnOp \in {"none", "code", "bibref"}
  /\ rnOp' = "bibref"
  /\ LET changes == ChangesOf(BibScan(rnFiles, rnBib)) IN
     IF rnBib = {} \/ DOMAIN changes = {}
     THEN rnResult' = "None" /\ rnChanges' = NoChanges
     ELSE rnResult' = "WorkspaceEdit" /\ rnChanges' = changes
  /\ UNCHANGED <<rnFiles, rnTemplate, rnBib, rnOthers>>

RenNext ==
  \/ RenameCode
  \/ RenameBibref

(***************************************************************************)
(* rename.py: prepare_rename and compute_rename on the same document,      *)
(* cursor and cached compilation                                           *)
(***************************************************************************)
\* _WORD_CHARS of hover.py and word_chars of _word_range: [@\w._-]
IsCursorChar(c) == IsIdentChar(c) \/ c = "@"

\* _word_range(line, character): start and end, positions from 0
word_range(line, character) ==
  LET start == CHOOSE s \in 0..character :
                 /\ \A p \in (s + 1)..character : IsCursorChar(line[p])
                 /\ s = 0 \/ ~IsCursorChar(line[s])
      end == CHOOSE e \in character..Len(line) :
               /\ \A p \in (character + 1)..e : IsCursorChar(line[p])
               /\ e = Len(line) \/ ~IsCursorChar(line[e + 1])
  IN  [start |-> start, end |-> end]

\* _get_word_at_position(line, character): <<>> stands for None
get_word_at_position(line, character) ==
  IF character >= Len(line) THEN <<>>
  ELSE IF ~IsCursorChar(line[character + 1]) THEN <<>>
  ELSE LET r == word_range(line, character) IN SubSeq(line, r.start + 1, r.end)

\* normalized in ontology_index or word in ontology_index
InOntologyIndex(word, ontology_index) ==
  rn_normalize_code(word) \in ontology_index \/ word \in ontology_index

PrNone == [kind |-> "None", start |-> 0, end |-> 0]

\* prepare_rename(source, position, cached_result). The document has one
\* line; cached is "none" (no cached_result), "nolp" (no linked_project),
\* "noroot" (no workspace_root) or "full".
prepare_on_codes_only(in) ==
  IF in.cached = "none" \/ in.position.line >= 1 THEN PrNone
  ELSE LET word == get_word_at_position(in.line, in.position.character) IN
       IF word = <<>> \/ in.cached = "nolp" \/ Head(word) = "@" THEN PrNone
       ELSE IF InOntologyIndex(word, in.ontology_index)
       THEN [kind |-> "Range"] @@ word_range(in.line, in.position.character)
       ELSE PrNone

prepare_rename(in) ==
  IF in.cached = "none" THEN PrNone
  ELSE IF in.position.line >= 1 THEN PrNone
  ELSE LET word == get_word_at_position(in.line, in.position.character) IN
       IF word = <<>> THEN PrNone
       ELSE IF in.cached = "nolp" THEN PrNone
       ELSE IF Head(word) = "@"
       THEN IF normalize_bibref(word) \in DOMAIN in.sources
            THEN [kind |-> "Range"] @@ word_range(in.line, in.position.character)
            ELSE PrNone
       ELSE IF InOntologyIndex(word, in.ontology_index)
       THEN [kind |-> "Range"] @@ word_range(in.line, in.position.character)
       ELSE PrNone

\* _rename_bibref: sources.get(old_bibref) must be an object; its files are
\* scanned for @old_bibref
rename_bibref(old_bibref, in) ==
  IF old_bibref \notin DOMAIN in.sources THEN "None"
  ELSE IF in.sources[old_bibref] = "None" THEN "None"
  ELSE IF in.bib = {} THEN "None"
  ELSE IF DOMAIN ChangesOf(BibScan(in.files, in.bib)) = {} THEN "None"
  ELSE "WorkspaceEdit"

\* _rename_code
rename_code(in) ==
  IF collect_files(in.files) = {} THEN "None"
  ELSE IF DOMAIN ChangesOf(CodeScan(in.files, in.template)) = {} THEN "None"
  ELSE "WorkspaceEdit"

\* compute_rename(source, position, new_name, cached_result)
compute_rename(in) ==
  IF in.cached = "none" THEN "None"
  ELSE IF in.position.line >= 1 THEN "None"
  ELSE LET word == get_word_at_position(in.line, in.position.character) IN
       IF word = <<>> THEN "None"
       ELSE IF in.cached = "nolp" THEN "None"
       ELSE IF in.cached = "noroot" THEN "None"
       ELSE IF Head(word) = "@" THEN rename_bibref(normalize_bibref(word), in)
       ELSE IF InOntologyIndex(word, in.ontology_index) THEN rename_code(in)
       ELSE "None"

(***************************************************************************)
(* Documents, cursors and compilations                                     *)
(***************************************************************************)
PrLines ==
  { <<"@", "B", "1", " ", "o", "r", "d">>, <<"O", "r", "d", ",">>,
    <<"z", " ", "@">>, <<" ">> }

MaxPrChar == 7

PrBibrefs == <<"b", "1">>
PrSources ==
  { [b \in {} |-> "None"], [b \in {PrBibrefs} |-> "None"], [b \in {PrBibrefs} |-> "src"] }

PrOntologies == SUBSET { <<"o", "r", "d">>, <<"O", "r", "d">> }

\* A workspace where both renames find edits, and one where none does
PrFilesWith ==
  [f \in RenNames |-> IF f = "o1" THEN RFile("syno", "text", SynoDefines)
                      ELSE RFile("syn", "text", SynUsage)]
PrFilesWithout ==
  [f \in RenNames |-> IF f = "o1" THEN RFile("syno", "text", SynoOther)
                      ELSE RFile("syn", "text", SynWithout)]

PrInit ==
  /\ prIn \in [cached : {"none", "nolp", "noroot", "full"},
               line : PrLines,
               position : [line : 0..1, character : 0..MaxPrChar],
               sources : PrSources,
               ontology_index : PrOntologies,
               files : {PrFilesWith, PrFilesWithout},
               bib : {{"s1"}},
               template : {ScanTemplate}]
  /\ prRange = [kind |-> "unset", start |-> 0, end |-> 0]
  /\ prEdit = "unset"

\* No rename is asked (the other specifications)
PrIdle ==
  /\ prIn = [cached |-> "none", line |-> <<>>, position |-> [line |-> 0, character |-> 0],
             sources |-> [b \in {} |-> "None"], ontology_index |-> {},
             files |-> PrFilesWithout, bib |-> {}, template |-> NoTemplate]
  /\ prRange = [kind |-> "idle", start |-> 0, end |-> 0]
  /\ prEdit = "idle"

\* textDocument/prepareRename
PrepareRename ==
  /\ prRange.kind = "unset"
  /\ prRange' = prepare_rename(prIn)
  /\ UNCHANGED <<prIn, prEdit, prOthers>>

\* textDocument/rename
ComputeRename ==
  /\ prEdit = "unset"
  /\ prEdit' = compute_rename(prIn)
  /\ UNCHANGED <<prIn, prRange, prOthers>>

PrNext ==
  \/ PrepareRename
  \/ ComputeRename

(***************************************************************************)
(* rename.py: the TextEdits of one file, from the text of its lines        *)
(* (_find_and_replace_in_syn, _find_and_replace_in_syno,                   *)
(* _find_and_replace_in_file)                                              *)
(*                                                                         *)
(* A line carries its text (full) and the part of it that the scanner      *)
(* hands to pattern.finditer when it searches the line: the name of an     *)
(* ONTOLOGY header (group 2), the value of a field (group 4), the whole    *)
(* line otherwise; offset is where the part starts in the line.            *)
(***************************************************************************)
ELine(kind, indent, name, full, offset, part) ==
  [kind |-> kind, indent |-> indent, name |-> name, full |-> full,
   offset |-> offset, part |-> part]

EdWhole(kind, indent, full) == ELine(kind, indent, <<>>, full, 0, full)

EdSynLines ==
  { EdWhole("ITEM", 0, <<"I", "T", "E", "M", " ", "@", "a">>),
    EdWhole("END ITEM", 0, <<"E", "N", "D", " ", "I", "T", "E", "M">>),
    EdWhole("SOURCE", 0, <<"S", "O", "U", "R", "C", "E", " ", "@", "a">>),
    ELine("field", 1, NOrdCaps, <<" ", "O", "R", "D", ":", "a", ",", "A">>, 5, <<"a", ",", "A">>),
    ELine("field", 1, NNota, <<" ", "n", "o", "t", "a", ":", "a">>, 6, <<"a">>),
    EdWhole("text", 2, <<" ", " ", "a", " ", "a", "b", " ", "a">>),
    EdWhole("text", 1, <<" ", "a">>),
    EdWhole("comment", 0, <<"#", "a">>) }

EdSynoLines ==
  { ELine("ONTOLOGY", 0, <<>>, <<"O", "N", "T", "O", "L", "O", "G", "Y", " ", "a", " ", "a">>,
          9, <<"a">>),
    EdWhole("END ONTOLOGY", 0, <<"E", "N", "D", " ", "O", "N", "T", "O", "L", "O", "G", "Y">>),
    ELine("field", 1, NPai, <<" ", "p", "a", "i", ":", "a", ">", "a">>, 5, <<"a", ">", "a">>),
    ELine("field", 1, NDesc, <<" ", "d", "e", "s", "c", ":", "a">>, 6, <<"a">>),
    EdWhole("text", 2, <<" ", " ", "a", ",", "a">>),
    EdWhole("blank", 0, <<>>) }

MaxEdLines == 4

\* The words a rename starts from
EdWords == {<<"a">>, <<"A">>, <<"@", "a">>}

EdPattern(word) ==
  IF Head(word) = "@" THEN bibref_pattern(normalize_bibref(word))
  ELSE build_code_pattern(word, rn_normalize_code(word))

edits_to_last_match(line_num, value_start, matches) ==
  [i \in 1..Len(matches) |->
     [start |-> [line |-> line_num, character |-> value_start + matches[i].start - 1],
      end |-> [line |-> line_num, character |-> value_start + matches[Len(matches)].stop - 1]]]

\* TextEdit(range=Range(start=Position(line_num, value_start + match.start()),
\* end=Position(line_num, value_start + match.end()))) for the matches of one
\* searched part (matches count positions from 1, stop is past the match)
text_edits(line_num, value_start, matches) ==
  [i \in 1..Len(matches) |->
     [start |-> [line |-> line_num, character |-> value_start + matches[i].start - 1],
      end |-> [line |-> line_num, character |-> value_start + matches[i].stop - 1]]]

\* The lines as the scanners see them: has and bib tell whether the pattern
\* matches in the part and in the whole line
EdFile(suffix, lines, pat) ==
  RFile(suffix, "text",
        [n \in 1..Len(lines) |->
           RLine(lines[n].kind, lines[n].indent, lines[n].name,
                 FindIter(lines[n].part, pat, 1) # <<>>,
                 FindIter(lines[n].full, pat, 1) # <<>>)])

RECURSIVE EdFlatten(_)
EdFlatten(lists) == IF lists = <<>> THEN <<>> ELSE Head(lists) \o EdFlatten(Tail(lists))

\* The edits of a file: for each line the scanner appends edits for, in the
\* order of the lines, the edits of the matches of the part it searched
file_edits(in) ==
  LET pat == EdPattern(in.word)
      file == EdFile(in.suffix, in.lines, pat)
      bibref == Head(in.word) = "@"
      ns == IF bibref THEN find_and_replace_in_file(file)
            ELSE IF in.suffix = "syno"
            THEN find_and_replace_in_syno(file, ontology_code_fields(ScanTemplate))
            ELSE find_and_replace_in_syn(file, item_code_fields(ScanTemplate),
                                         item_chain_fields(ScanTemplate))
  IN  EdFlatten([k \in 1..Len(ns) |->
        IF bibref
        THEN text_edits(ns[k] - 1, 0, FindIter(in.lines[ns[k]].full, pat, 1))
        ELSE text_edits(ns[k] - 1, in.lines[ns[k]].offset,
                        FindIter(in.lines[ns[k]].part, pat, 1))])

EdInputs ==
  { [suffix |-> "syn", lines |-> lines, word |-> word] :
      lines \in SeqsUpTo(EdSynLines, MaxEdLines), word \in EdWords }
  \cup { [suffix |-> "syno", lines |-> lines, word |-> word] :
           lines \in SeqsUpTo(EdSynoLines, MaxEdLines), word \in {<<"a">>, <<"A">>} }

EdInit ==
  /\ edIn \in EdInputs
  /\ edOut = [op |-> "none", edits |-> <<>>]

\* No file is scanned (the other specifications)
EdIdle ==
  /\ edIn = [suffix |-> "syn", lines |-> <<>>, word |-> <<"a">>]
  /\ edOut = [op |-> "idle", edits |-> <<>>]

\* The scan of one file by _rename_code or _rename_bibref
EdScan ==
  /\ edOut.op = "none"
  /\ edOut' = [op |-> "scanned", edits |-> file_edits(edIn)]
  /\ UNCHANGED <<edIn, edOthers>>

EdNext == EdScan

(***************************************************************************)
(* cache.py, server.py and the memoized requests: get_references,          *)
(* get_codes, get_relations, get_ontology_annotations, get_ontology_topics *)
(***************************************************************************)
\* Workspace keys; str(workspace_root) of a workspace is its key
Workspaces == {"w1", "w2"}

\* id() of the CachedCompilation objects
MaxIds == 2
Ids == 1..MaxIds

\* What a compilation can give: a result without linked project, or a linked
\* project
Projects == {"p1"}
NoLp == "nolp"

\* No entry in WorkspaceCache._cache
NoSnap == [live |-> FALSE, id |-> 0, timestamp |-> 0, result |-> "none"]

\* File names
FileA == <<"a">>
FileB == <<"b">>
FileAB == <<"a", "b">>
NoFile == <<>>
ActiveFiles == {NoFile, FileB, <<"a", "/">>}

\* What the linked project holds for each ontology concept: the occurrences
\* that _find_code_in_item gives for the items that use it, with their file
AnnItems(proj) ==
  << [code |-> "a", occurrences |-> << [file |-> FileA, line |-> 1],
                                       [file |-> FileB, line |-> 2],
                                       [file |-> FileAB, line |-> 3] >>],
     [code |-> "c", occurrences |-> << >>] >>

\* lp.all_triples, as get_relations lists them
RelOf(proj) == << <<"a", "r", "c">> >>

\* The topics of the ontology files of the project
TopOf(proj) == << "a", "c" >>

\* lp.sources and the code usage, as get_references and get_codes list them
RefsOf(proj) == << "s1", "s2" >>
CodesOf(proj) == << "a", "c" >>

\* _get_linked_project: the linked project of a cached result, or None
assume_linked_project(cached) == cached.result

get_linked_project(cached) ==
  IF ~cached.live THEN NoLp
  ELSE IF cached.result \in {"none", NoLp} THEN NoLp
  ELSE cached.result

\* A response envelope. from is not part of it: it records the timestamp of the
\* compilation the data was built from.
Envelope(success, error, data, from) ==
  [success |-> success, error |-> error, data |-> data, from |-> from]

Failure(error) == Envelope(FALSE, error, <<>>, 0)
NoPayload == Envelope(FALSE, "none", <<>>, 0)

\* _relations_cache_key, _annotations_cache_key, _topics_cache_key
NoKey == <<"", 0, 0>>

key_without_timestamp(cached, root) ==
  IF ~cached.live THEN NoKey ELSE <<root, cached.id, 0>>

cache_key(cached, root) ==
  IF ~cached.live THEN NoKey ELSE <<root, cached.id, cached.timestamp>>

\* _RELATIONS_CACHE.get(cache_key) if cache_key else None
MemoGet(memo, key) ==
  IF key # NoKey /\ \E i \in 1..Len(memo) : memo[i].key = key
  THEN memo[CHOOSE i \in 1..Len(memo) : memo[i].key = key].val
  ELSE NoPayload

\* _RELATIONS_CACHE_MAX, _ANNOTATIONS_CACHE_MAX, _TOPICS_CACHE_MAX
CACHE_MAX == 4

cache_set_unbounded(memo, key, value) ==
  IF key = NoKey THEN memo
  ELSE IF \E i \in 1..Len(memo) : memo[i].key = key
  THEN [i \in 1..Len(memo) |->
          IF memo[i].key = key THEN [key |-> key, val |-> value] ELSE memo[i]]
  ELSE Append(memo, [key |-> key, val |-> value])

\* _relations_cache_set, _annotations_cache_set, _topics_cache_set
cache_set(memo, key, value) ==
  IF key = NoKey THEN memo
  ELSE LET put == IF \E i \in 1..Len(memo) : memo[i].key = key
                  THEN [i \in 1..Len(memo) |->
                          IF memo[i].key = key THEN [key |-> key, val |-> value] ELSE memo[i]]
                  ELSE Append(memo, [key |-> key, val |-> value])
       IN  IF Len(put) > CACHE_MAX /\ put[1].key # key THEN Tail(put) ELSE put

\* a in b, for strings
Contains(a, b) ==
  \E p \in 1..(Len(b) - Len(a) + 1) : \A i \in 1..Len(a) : b[p + i - 1] = a[i]

\* _normalize_path_value for a relative path: Path(value).as_posix() drops a
\* trailing "/"
RECURSIVE normalize_path_value(_)
normalize_path_value(value) ==
  IF Len(value) > 1 /\ value[Len(value)] = "/"
  THEN normalize_path_value(SubSeq(value, 1, Len(value) - 1))
  ELSE value

\* _file_matches
file_matches(active_file, relative_file) ==
  \/ Contains(normalize_path_value(active_file), normalize_path_value(relative_file))
  \/ Contains(normalize_path_value(relative_file), normalize_path_value(active_file))

FilterOccs(occs, active_file) ==
  SelectSeq(occs, LAMBDA occ : occ.file # NoFile /\ file_matches(active_file, occ.file))

\* _filter_annotations_by_file: a new payload, the one given is left as it is
filter_annotations_by_file(payload, active_file) ==
  Envelope(TRUE, "",
           [i \in 1..Len(payload.data) |->
              [payload.data[i] EXCEPT !.occurrences = FilterOccs(@, active_file)]],
           payload.from)

\* _build_occurrences(code, items, workspace_root, active_file)
build_occurrences(occs, active_file) ==
  IF active_file # NoFile THEN FilterOccs(occs, active_file) ELSE occs

PassActiveFile(active_file) == active_file

\* The active_file that get_ontology_annotations hands to _build_occurrences
BuildActiveFile(active_file) == NoFile

\* The annotations built from a linked project (sorted by code)
BuildAnnotations(proj, active_file) ==
  [i \in 1..Len(AnnItems(proj)) |->
     [AnnItems(proj)[i] EXCEPT
        !.occurrences = build_occurrences(@, BuildActiveFile(active_file))]]

NoRequest == [op |-> "none", ws |-> "none", active |-> NoFile, resp |-> NoPayload]

Request(op, ws, active, resp) == [op |-> op, ws |-> ws, active |-> active, resp |-> resp]

MaxPuts == 2

WsIdle ==
  /\ wsCache = [w \in Workspaces |-> NoSnap]
  /\ wsClock = 0
  /\ memoRel = <<>>
  /\ memoAnn = <<>>
  /\ memoTop = <<>>
  /\ wsLast = NoRequest

\* The server has started: WorkspaceCache() and the empty memos
WsInit == WsIdle

LiveIds == { wsCache[w].id : w \in { v \in Workspaces : wsCache[v].live } }

\* load_project: compile and WorkspaceCache.put. The new CachedCompilation is
\* created while the one it replaces is still alive, and reads a later time.
WsPut(w) ==
  /\ wsClock < MaxPuts
  /\ \E id \in Ids \ LiveIds, result \in Projects \cup {NoLp} :
       wsCache' = [wsCache EXCEPT
                     ![w] = [live |-> TRUE, id |-> id, timestamp |-> wsClock + 1,
                             result |-> result]]
  /\ wsClock' = wsClock + 1
  /\ wsLast' = NoRequest
  /\ UNCHANGED <<memoRel, memoAnn, memoTop, wsOthers>>

\* WorkspaceCache.invalidate
WsInvalidate(w) ==
  /\ wsCache' = [wsCache EXCEPT ![w] = NoSnap]
  /\ wsLast' = NoRequest
  /\ UNCHANGED <<wsClock, memoRel, memoAnn, memoTop, wsOthers>>

\* cmd_get_references and get_references
GetReferences(w) ==
  LET cached == wsCache[w]
      lp == get_linked_project(cached)
  IN  /\ wsLast' = Request("references", w, NoFile,
                           IF lp = NoLp THEN Failure("Projeto nao carregado")
                           ELSE Envelope(TRUE, "", RefsOf(lp), cached.timestamp))
      /\ UNCHANGED <<wsCache, wsClock, memoRel, memoAnn, memoTop, wsOthers>>

\* cmd_get_codes and get_codes (the build itself is the subject of SpecGc)
GetCodes(w) ==
  LET cached == wsCache[w]
      lp == get_linked_project(cached)
  IN  /\ wsLast' = Request("codes", w, NoFile,
                           IF lp = NoLp THEN Failure("Projeto nao carregado")
                           ELSE Envelope(TRUE, "", CodesOf(lp), cached.timestamp))
      /\ UNCHANGED <<wsCache, wsClock, memoRel, memoAnn, memoTop, wsOthers>>

\* cmd_get_relations and get_relations
GetRelations(w) ==
  LET cached == wsCache[w]
      lp == get_linked_project(cached)
      key == cache_key(cached, w)
      hit == MemoGet(memoRel, key)
      built == Envelope(TRUE, "", RelOf(lp), cached.timestamp)
  IN  /\ IF lp = NoLp
         THEN wsLast' = Request("relations", w, NoFile, Failure("Projeto nao carregado"))
              /\ UNCHANGED memoRel
         ELSE IF hit # NoPayload
         THEN wsLast' = Request("relations", w, NoFile, hit) /\ UNCHANGED memoRel
         ELSE wsLast' = Request("relations", w, NoFile, built)
              /\ memoRel' = cache_set(memoRel, key, built)
      /\ UNCHANGED <<wsCache, wsClock, memoAnn, memoTop, wsOthers>>

\* cmd_get_ontology_annotations and get_ontology_annotations
GetAnnotations(w, active_file) ==
  LET cached == wsCache[w]
      lp == get_linked_project(cached)
      key == cache_key(cached, w)
      hit == MemoGet(memoAnn, key)
      built == Envelope(TRUE, "", BuildAnnotations(lp, active_file), cached.timestamp)
      Out(payload) == IF active_file # NoFile
                      THEN filter_annotations_by_file(payload, active_file) ELSE payload
  IN  /\ IF lp = NoLp
         THEN wsLast' = Request("annotations", w, active_file,
                                IF ~cached.live THEN Failure("Workspace nao compilado")
                                ELSE Failure("LinkedProject nao disponivel"))
              /\ UNCHANGED memoAnn
         ELSE IF hit # NoPayload
         THEN wsLast' = Request("annotations", w, active_file, Out(hit))
              /\ UNCHANGED memoAnn
         ELSE wsLast' = Request("annotations", w, active_file, Out(built))
              /\ memoAnn' = cache_set(memoAnn, key, built)
      /\ UNCHANGED <<wsCache, wsClock, memoRel, memoTop, wsOthers>>

\* cmd_get_ontology_topics and get_ontology_topics
GetTopics(w) ==
  LET cached == wsCache[w]
      lp == get_linked_project(cached)
      key == cache_key(cached, w)
      hit == MemoGet(memoTop, key)
      built == Envelope(TRUE, "", TopOf(lp), cached.timestamp)
  IN  /\ IF lp = NoLp
         THEN wsLast' = Request("topics", w, NoFile,
                                IF ~cached.live THEN Failure("Workspace nao compilado")
                                ELSE Failure("LinkedProject nao disponivel"))
              /\ UNCHANGED memoTop
         ELSE IF hit # NoPayload
         THEN wsLast' = Request("topics", w, NoFile, hit) /\ UNCHANGED memoTop
         ELSE wsLast' = Request("topics", w, NoFile, built)
              /\ memoTop' = cache_set(memoTop, key, built)
      /\ UNCHANGED <<wsCache, wsClock, memoRel, memoAnn, wsOthers>>

WsNext ==
  \/ \E w \in Workspaces : WsPut(w)
  \/ \E w \in Workspaces : WsInvalidate(w)
  \/ \E w \in Workspaces : GetReferences(w)
  \/ \E w \in Workspaces : GetCodes(w)
  \/ \E w \in Workspaces : GetRelations(w)
  \/ \E w \in Workspaces, active_file \in ActiveFiles : GetAnnotations(w, active_file)
  \/ \E w \in Workspaces : GetTopics(w)

(***************************************************************************)
(* cache.py: WorkspaceCache as a dict, under put, invalidate, get and has  *)
(***************************************************************************)
\* What dict.get gives for a key that is not there
None == [result |-> "None", timestamp |-> 0]

\* CompilationResult objects; load_project stores whatever the compiler returns
WcResults == {"r1", "r2"}

MaxWcPuts == 4

\* WorkspaceCache.get: self._cache.get(workspace_key)
WorkspaceCache_get(cache, workspace_key) ==
  IF \E i \in 1..Len(cache) : cache[i].key = workspace_key
  THEN cache[CHOOSE i \in 1..Len(cache) : cache[i].key = workspace_key].val
  ELSE None

put_only(cache, workspace_key, value) == << [key |-> workspace_key, val |-> value] >>

\* WorkspaceCache.put: self._cache[workspace_key] = CachedCompilation(...)
WorkspaceCache_put(cache, workspace_key, value) ==
  IF \E i \in 1..Len(cache) : cache[i].key = workspace_key
  THEN [i \in 1..Len(cache) |->
          IF cache[i].key = workspace_key THEN [key |-> workspace_key, val |-> value]
          ELSE cache[i]]
  ELSE Append(cache, [key |-> workspace_key, val |-> value])

\* WorkspaceCache.invalidate: self._cache.pop(workspace_key, None)
WorkspaceCache_invalidate(cache, workspace_key) ==
  SelectSeq(cache, LAMBDA e : e.key # workspace_key)

\* WorkspaceCache.has: workspace_key in self._cache
WorkspaceCache_has(cache, workspace_key) ==
  \E i \in 1..Len(cache) : cache[i].key = workspace_key

WcNoCall == [op |-> "none", key |-> "none", out |-> None, has |-> FALSE]

\* WorkspaceCache()
WcInit ==
  /\ wcCache = <<>>
  /\ wcClock = 0
  /\ wcExpect = [k \in Workspaces |-> None]
  /\ wcLast = WcNoCall

\* The cache is not used (the other specifications)
WcIdle ==
  /\ wcCache = <<>>
  /\ wcClock = 0
  /\ wcExpect = [k \in Workspaces |-> None]
  /\ wcLast = [WcNoCall EXCEPT !.op = "idle"]

\* put(workspace_key, result, workspace_root); the CachedCompilation reads the
\* time when it is created
WcPut(k, result) ==
  /\ wcClock < MaxWcPuts
  /\ LET value == [result |-> result, timestamp |-> wcClock + 1] IN
       /\ wcCache' = WorkspaceCache_put(wcCache, k, value)
       /\ wcExpect' = [wcExpect EXCEPT ![k] = value]
  /\ wcClock' = wcClock + 1
  /\ wcLast' = [op |-> "put", key |-> k, out |-> None, has |-> FALSE]
  /\ UNCHANGED wcOthers

\* invalidate(workspace_key), of a key that is there or not
WcInvalidate(k) ==
  /\ wcCache' = WorkspaceCache_invalidate(wcCache, k)
  /\ wcExpect' = [wcExpect EXCEPT ![k] = None]
  /\ wcLast' = [op |-> "invalidate", key |-> k, out |-> None, has |-> FALSE]
  /\ UNCHANGED <<wcClock, wcOthers>>

\* get(workspace_key) and has(workspace_key)
WcGet(k) ==
  /\ wcLast' = [op |-> "get", key |-> k, out |-> WorkspaceCache_get(wcCache, k),
                has |-> WorkspaceCache_has(wcCache, k)]
  /\ UNCHANGED <<wcCache, wcClock, wcExpect, wcOthers>>

WcNext ==
  \E k \in Workspaces :
    \/ \E result \in WcResults : WcPut(k, result)
    \/ WcInvalidate(k)
    \/ WcGet(k)

(***************************************************************************)
(* server.py: the document handlers, validate_document, load_project and   *)
(* the invalidation of the workspace cache                                 *)
(***************************************************************************)
\* The documents a client opens, and what _find_workspace_root gives for each
\* ("none": no workspace root is found)
SvDocs == {"d1", "d2"}
DocRoot(uri) == IF uri = "d1" THEN "w1" ELSE "none"

\* Files that are saved or watched: where _find_workspace_root puts them, and
\* their suffix
SvExts == {".synp", ".synt", ".bib", ".syn", ".syno", ".txt"}
SvFiles == [root : Workspaces \cup {"none"}, ext : SvExts]

\* The steps of validate_document that can raise during one call
SvFaults ==
  { {}, {"fetch"}, {"validate"}, {"template"}, {"publish"}, {"validate", "publish"} }

\* The same for the revalidation after a save or a watched change
SvReFaults == { {}, {"validate"} }

\* The second change of a watched-files notification
SvSecondChanges ==
  { [root |-> "w1", ext |-> ".syn"], [root |-> "w2", ext |-> ".bib"],
    [root |-> "none", ext |-> ".synp"] }

MaxLoads == 2
MaxChanges == 2

\* What a handler published for a document: nothing ("none"), an empty list,
\* the diagnostics of the validation, or the list with the one internal-error
\* diagnostic
NoPublish == [uri \in SvDocs |-> "none"]

SvNoCall ==
  [op |-> "none", arg |-> "none", raised |-> FALSE, loaded |-> FALSE, faults |-> {}]

\* SynesisLanguageServer.__init__
SvInit ==
  /\ svCache = <<>>
  /\ svClock = 0
  /\ svStale = {}
  /\ svDocs = [w \in Workspaces |-> {}]
  /\ svOpen = {}
  /\ svEnabled = TRUE
  /\ svPub = NoPublish
  /\ svLast = SvNoCall

\* The server is not running (the other specifications)
SvIdle ==
  /\ svCache = <<>>
  /\ svClock = 0
  /\ svStale = {}
  /\ svDocs = [w \in Workspaces |-> {}]
  /\ svOpen = {}
  /\ svEnabled = TRUE
  /\ svPub = NoPublish
  /\ svLast = [SvNoCall EXCEPT !.op = "idle"]

\* The registration at the end of validate_document
RegisterDocument(docs, uri) ==
  IF DocRoot(uri) = "none" THEN docs
  ELSE [docs EXCEPT ![DocRoot(uri)] = @ \cup {uri}]

RegisterAlways(docs, uri) == docs

\* validate_document(ls, uri) with the steps in faults raising: the
\* workspace_documents and the published lists afterwards, and whether the
\* call raised. st is [docs, pub, raised].
validate_document(st, enabled, uri, faults) ==
  IF ~enabled
  THEN IF "publish" \in faults THEN [st EXCEPT !.raised = TRUE]
       ELSE [st EXCEPT !.pub[uri] = "empty"]
  ELSE IF "fetch" \in faults
  THEN \* the except branch reads source, which was never bound
       [st EXCEPT !.raised = TRUE]
  ELSE IF "validate" \in faults
  THEN IF "publish" \in faults THEN [st EXCEPT !.raised = TRUE]
       ELSE [st EXCEPT !.pub[uri] = "error"]
  ELSE [docs |-> RegisterDocument(st.docs, uri),
        pub |-> IF "publish" \in faults THEN st.pub
                ELSE [st.pub EXCEPT ![uri] = "diags"],
        raised |-> st.raised]

\* for doc_uri in list(uris): try: validate_document(ls, doc_uri) except: log
RECURSIVE Revalidate(_, _, _, _)
Revalidate(st, enabled, uris, faults) ==
  IF uris = {} THEN st
  ELSE LET uri == CHOOSE u \in uris : TRUE
           one == validate_document([st EXCEPT !.raised = FALSE], enabled, uri, faults)
       IN  Revalidate([one EXCEPT !.raised = st.raised], enabled, uris \ {uri}, faults)

AllRegistered(docs) == UNION { docs[w] : w \in Workspaces }

SvStart == [docs |-> svDocs, pub |-> NoPublish, raised |-> FALSE]

\* The last call: the handler, its argument, whether it raised, and the steps
\* that failed in it
SvCall(op, arg, raised, faults) ==
  [op |-> op, arg |-> arg, raised |-> raised, loaded |-> FALSE, faults |-> faults]

\* did_open
DidOpen(uri, faults) ==
  /\ uri \notin svOpen
  /\ svOpen' = svOpen \cup {uri}
  /\ LET st == validate_document(SvStart, svEnabled, uri, faults) IN
       /\ svDocs' = st.docs
       /\ svPub' = st.pub
       /\ svLast' = SvCall("did_open", uri, st.raised, faults)
  /\ UNCHANGED <<svCache, svClock, svStale, svEnabled, svOthers>>

\* did_change
DidChange(uri, faults) ==
  /\ uri \in svOpen
  /\ LET st == validate_document(SvStart, svEnabled, uri, faults) IN
       /\ svDocs' = st.docs
       /\ svPub' = st.pub
       /\ svLast' = SvCall("did_change", uri, st.raised, faults)
  /\ UNCHANGED <<svCache, svClock, svStale, svOpen, svEnabled, svOthers>>

\* did_close
DidClose(uri) ==
  /\ uri \in svOpen
  /\ svOpen' = svOpen \ {uri}
  /\ svPub' = [NoPublish EXCEPT ![uri] = "empty"]
  /\ svDocs' = IF DocRoot(uri) = "none" THEN svDocs
               ELSE [svDocs EXCEPT ![DocRoot(uri)] = @ \ {uri}]
  /\ svLast' = SvCall("did_close", uri, FALSE, {})
  /\ UNCHANGED <<svCache, svClock, svStale, svEnabled, svOthers>>

\* did_change_configuration: the new value of validation.enabled
DidChangeConfiguration(enabled, faults) ==
  /\ svEnabled' = enabled
  /\ LET st == IF ~svEnabled /\ enabled
               THEN Revalidate(SvStart, enabled, AllRegistered(svDocs), faults)
               ELSE IF svEnabled /\ ~enabled /\ "publish" \notin faults
               THEN [SvStart EXCEPT
                       !.pub = [uri \in SvDocs |->
                                  IF uri \in AllRegistered(svDocs) THEN "empty" ELSE "none"]]
               ELSE SvStart
     IN  /\ svDocs' = st.docs
         /\ svPub' = st.pub
         /\ svLast' = SvCall("did_change_configuration",
                             IF enabled THEN "enabled" ELSE "disabled", FALSE, faults)
  /\ UNCHANGED <<svCache, svClock, svStale, svOpen, svOthers>>

SaveNothing(st, enabled, file, faults) == st

\* One file handled by did_save: cache and documents afterwards.
\* st is [cache, docs, pub, raised].
SaveOne(st, enabled, file, faults) ==
  IF file.ext \in {".synp", ".synt", ".bib"}
  THEN IF file.root = "none" THEN st
       ELSE LET v == Revalidate([docs |-> st.docs, pub |-> st.pub, raised |-> FALSE],
                                enabled, st.docs[file.root], faults)
            IN  [cache |-> WorkspaceCache_invalidate(st.cache, file.root),
                 docs |-> v.docs, pub |-> v.pub, raised |-> FALSE]
  ELSE IF file.ext \in {".syn", ".syno"}
  THEN IF file.root = "none" THEN st
       ELSE [st EXCEPT !.cache = WorkspaceCache_invalidate(st.cache, file.root)]
  ELSE st

\* One change handled by did_change_watched_files
WatchedOne(st, enabled, file, faults) ==
  IF file.ext \notin {".synp", ".synt", ".bib", ".syn", ".syno"} THEN st
  ELSE IF file.root = "none" THEN st
  ELSE LET v == Revalidate([docs |-> st.docs, pub |-> st.pub, raised |-> FALSE],
                           enabled, st.docs[file.root], faults)
       IN  [cache |-> WorkspaceCache_invalidate(st.cache, file.root),
            docs |-> v.docs, pub |-> v.pub, raised |-> FALSE]

RECURSIVE WatchedAll(_, _, _, _)
WatchedAll(st, enabled, changes, faults) ==
  IF changes = <<>> THEN st
  ELSE WatchedAll(WatchedOne(st, enabled, Head(changes), faults), enabled,
                  Tail(changes), faults)

\* The workspaces whose compilation a change of this file makes stale
Touches(file) ==
  IF file.root # "none" /\ file.ext \in {".synp", ".synt", ".bib", ".syn", ".syno"}
  THEN {file.root} ELSE {}

\* did_save
DidSave(file, faults) ==
  /\ LET st == SaveOne([cache |-> svCache, docs |-> svDocs, pub |-> NoPublish,
                        raised |-> FALSE], svEnabled, file, faults)
     IN  /\ svCache' = st.cache
         /\ svDocs' = st.docs
         /\ svPub' = st.pub
         /\ svLast' = SvCall("did_save", file.ext, st.raised, faults)
  /\ svStale' = svStale \cup Touches(file)
  /\ UNCHANGED <<svClock, svOpen, svEnabled, svOthers>>

\* did_change_watched_files
DidChangeWatchedFiles(changes, faults) ==
  /\ LET st == WatchedAll([cache |-> svCache, docs |-> svDocs, pub |-> NoPublish,
                           raised |-> FALSE], svEnabled, changes, faults)
     IN  /\ svCache' = st.cache
         /\ svDocs' = st.docs
         /\ svPub' = st.pub
         /\ svLast' = SvCall("did_change_watched_files", changes[1].ext, st.raised, faults)
  /\ svStale' = svStale \cup UNION { Touches(changes[i]) : i \in 1..Len(changes) }
  /\ UNCHANGED <<svClock, svOpen, svEnabled, svOthers>>

\* load_project: the compilation succeeds and is stored, or it fails and
\* nothing is stored
LoadProject(w, ok) ==
  /\ svClock < MaxLoads
  /\ svClock' = svClock + 1
  /\ svCache' = IF ok THEN WorkspaceCache_put(svCache, w,
                                              [result |-> "r1", timestamp |-> svClock + 1])
                ELSE svCache
  /\ svStale' = IF ok THEN svStale \ {w} ELSE svStale
  /\ svPub' = NoPublish
  /\ svLast' = [SvCall("load_project", w, FALSE, {}) EXCEPT !.loaded = ok]
  /\ UNCHANGED <<svDocs, svOpen, svEnabled, svOthers>>

\* A request served from the cache (_get_cached_for_workspace and one of the
\* get_ functions): loaded is the success of the envelope
SvRequest(w) ==
  /\ svLast' = [SvCall("request", w, FALSE, {}) EXCEPT
                !.loaded = WorkspaceCache_get(svCache, w) # None]
  /\ svPub' = NoPublish
  /\ UNCHANGED <<svCache, svClock, svStale, svDocs, svOpen, svEnabled, svOthers>>

SvNext ==
  \/ \E uri \in SvDocs, faults \in SvFaults : DidOpen(uri, faults)
  \/ \E uri \in SvDocs, faults \in SvFaults : DidChange(uri, faults)
  \/ \E uri \in SvDocs : DidClose(uri)
  \/ \E enabled \in BOOLEAN, faults \in SvFaults : DidChangeConfiguration(enabled, faults)
  \/ \E file \in SvFiles, faults \in SvReFaults : DidSave(file, faults)
  \/ \E n \in 1..MaxChanges :
       \E changes \in { c \in [1..n -> SvFiles] :
                          \A i \in 2..n : c[i] \in SvSecondChanges } :
         \E faults \in SvReFaults : DidChangeWatchedFiles(changes, faults)
  \/ \E w \in Workspaces, ok \in BOOLEAN : LoadProject(w, ok)
  \/ \E w \in Workspaces : SvRequest(w)

(***************************************************************************)
(* The result memos under many workspaces and snapshots:                   *)
(* _RELATIONS_CACHE, _ANNOTATIONS_CACHE and _TOPICS_CACHE                  *)
(***************************************************************************)
MemoKinds == {"relations", "annotations", "topics"}

\* The compilations a request can come with: each has its own timestamp, and
\* id() gives a number that an earlier, collected compilation may have had
MaxSnapshots == 3

MemoSnapshots ==
  { [live |-> TRUE, id |-> (t % MaxIds) + 1, timestamp |-> t, result |-> "p1"] :
      t \in 1..MaxSnapshots }

MemoNoLast == [key |-> NoKey, before |-> <<>>, hit |-> FALSE]

\* The server has started: the memo is empty
MemoInit ==
  /\ mmKind \in MemoKinds
  /\ mmMemo = <<>>
  /\ mmLast = MemoNoLast

\* No request has come (the other specifications)
MemoIdle ==
  /\ mmKind = "idle"
  /\ mmMemo = <<>>
  /\ mmLast = MemoNoLast

\* get_relations, get_ontology_annotations or get_ontology_topics for a linked
\* project: the memo's entry when there is one, else the result is built and
\* stored with the memo's cache_set
MemoRequest(w, cached) ==
  LET key == cache_key(cached, w)
      hit == MemoGet(mmMemo, key) # NoPayload
  IN  /\ mmMemo' = IF hit THEN mmMemo
                   ELSE cache_set(mmMemo, key, Envelope(TRUE, "", <<mmKind>>, cached.timestamp))
      /\ mmLast' = [key |-> key, before |-> mmMemo, hit |-> hit]
      /\ UNCHANGED <<mmKind, mmOthers>>

MemoNext == \E w \in Workspaces, cached \in MemoSnapshots : MemoRequest(w, cached)

(***************************************************************************)
(* The usage maps: get_codes (explorer_requests.py) and                    *)
(* get_ontology_annotations (ontology_annotations.py)                      *)
(*                                                                         *)
(* A dict is the sequence of its (key, value) pairs in insertion order. An *)
(* item object is known by its place in the project's item list: that      *)
(* place stands for id(item).                                              *)
(***************************************************************************)
DictHas(d, k) == \E i \in 1..Len(d) : d[i].key = k

\* d.get(k, [])
DictGet(d, k) ==
  IF DictHas(d, k) THEN d[CHOOSE i \in 1..Len(d) : d[i].key = k].val ELSE <<>>

\* d[k] = v
DictSet(d, k, v) ==
  IF DictHas(d, k)
  THEN [i \in 1..Len(d) |-> IF d[i].key = k THEN [key |-> k, val |-> v] ELSE d[i]]
  ELSE Append(d, [key |-> k, val |-> v])

\* _normalize_code of ontology_annotations.py
oa_normalize_code(value) == Lower(SplitJoin(value))

\* Another spelling of code x, and a concept no item uses
CodeXU == <<"X">>
CodeU == <<"u">>

\* The items of the project (sources in order, items in order)
UsItem1 ==
  [located |-> TRUE, file |-> "f1", line |-> 1, codes |-> <<CodeXU>>,
   extra |-> <<[name |-> FCODE, vals |-> <<CodeXU>>, loc |-> FALSE]>>, chains |-> <<>>]

UsItem2 ==
  [located |-> TRUE, file |-> "f1", line |-> 5, codes |-> <<CodeX>>, extra |-> <<>>,
   chains |-> <<[nodes |-> <<CodeX, CodeR, CodeY>>, loc |-> FALSE]>>]

UsItem3 ==
  [located |-> TRUE, file |-> "f1", line |-> 5, codes |-> <<CodeX>>, extra |-> <<>>,
   chains |-> <<>>]

UsProjects == {<<UsItem1, UsItem2>>, <<UsItem1, UsItem3>>}

\* lp.code_usage: at most MaxUsageKeys raw keys, each with a list of items
MaxUsageKeys == 2
UsRawKeys == {CodeXU, CodeX, CodeY}
UsItemLists == {<<1>>, <<2>>, <<1, 1>>, <<1, 2>>}

UsBases ==
  { d \in UNION { [1..n -> [key : UsRawKeys, val : UsItemLists]] : n \in 0..MaxUsageKeys } :
      \A i, j \in 1..Len(d) : d[i].key = d[j].key => i = j }

\* lp.ontology_index: its keys, in order
UsOntologies == {<<>>, <<CodeX>>, <<CodeU>>, <<CodeX, CodeU>>, <<CodeU, CodeX>>}

InOntology(onto, code) == \E i \in 1..Len(onto) : onto[i] = code

(***************************************************************************)
(* explorer_requests.py: get_codes                                         *)
(***************************************************************************)
\* _iter_codes_from_item: item.codes, then the codes of item.chains (the extra
\* fields of these items belong to no field spec)
iter_codes_from_item(item) ==
  LET RECURSIVE ChainCodes(_)
      ChainCodes(i) ==
        IF i > Len(item.chains) THEN <<>>
        ELSE extract_chain_codes(item.chains[i].nodes, GcChainSpecHasRelations)
               \o ChainCodes(i + 1)
  IN  SelectSeq(item.codes \o ChainCodes(1), LAMBDA c : Strip(c) # <<>>)

\* usage.setdefault(code, []).append(item) for each code of one item
RECURSIVE UsageAppend(_, _, _, _)
UsageAppend(usage, codes, n, i) ==
  IF i > Len(codes) THEN usage
  ELSE UsageAppend(DictSet(usage, codes[i], Append(DictGet(usage, codes[i]), n)),
                   codes, n, i + 1)

\* _build_code_usage_from_sources
RECURSIVE build_code_usage_from_sources(_, _, _)
build_code_usage_from_sources(usage, project, n) ==
  IF n > Len(project) THEN usage
  ELSE build_code_usage_from_sources(
         UsageAppend(usage, iter_codes_from_item(project[n]), n, 1), project, n + 1)

\* _get_code_usage: lp.code_usage when it is not empty
get_code_usage(base, project) ==
  IF base # <<>> THEN base ELSE build_code_usage_from_sources(<<>>, project, 1)

\* code_usage.setdefault(norm_code, []).extend(items), for every raw key
RECURSIVE NormalizeUsage(_, _, _)
NormalizeUsage(usage, raw, i) ==
  IF i > Len(raw) THEN usage
  ELSE LET norm == er_normalize_code(raw[i].key) IN
       NormalizeUsage(DictSet(usage, norm, DictGet(usage, norm) \o raw[i].val), raw, i + 1)

OntologyKeysSkipped(usage, onto, i) == usage

\* code_usage.setdefault(code, []) for every key of the ontology index
RECURSIVE OntologyKeys(_, _, _)
OntologyKeys(usage, onto, i) ==
  IF i > Len(onto) THEN usage
  ELSE OntologyKeys(IF DictHas(usage, onto[i]) THEN usage ELSE DictSet(usage, onto[i], <<>>),
                    onto, i + 1)

\* _build_code_occurrences(code, items, ...) when no file of the project can be
\* read: every item goes through the compiler-driven body
RECURSIVE UsOccurrences(_, _, _, _, _)
UsOccurrences(st, code, items, project, i) ==
  IF i > Len(items) THEN st.occs
  ELSE UsOccurrences(CompilerDriven(st, project[items[i]], i, code),
                     code, items, project, i + 1)

\* The loop over code_usage: codes.append({...})
CodesEntries(usage, onto, project) ==
  [e \in 1..Len(usage) |->
     [code |-> usage[e].key,
      usageCount |-> Len(usage[e].val),
      ontologyDefined |-> InOntology(onto, er_normalize_code(usage[e].key)),
      occurrences |-> UsOccurrences([occs |-> <<>>, seen |-> {}], usage[e].key,
                                    usage[e].val, project, 1)]]

CodeUsageOf(base, onto, project) ==
  OntologyKeys(NormalizeUsage(<<>>, get_code_usage(base, project), 1), onto, 1)

(***************************************************************************)
(* ontology_annotations.py: get_ontology_annotations                       *)
(***************************************************************************)
\* The first loop of _merge_code_usage_with_chains: usage[norm] = list(items)
RECURSIVE MergeBase(_, _, _)
MergeBase(usage, base, i) ==
  IF i > Len(base) THEN usage
  ELSE LET norm == oa_normalize_code(base[i].key) IN
       MergeBase(IF norm = <<>> THEN usage ELSE DictSet(usage, norm, base[i].val),
                 base, i + 1)

\* _add_item_to_usage; seen[norm] holds the ids of the items of usage[norm]
add_item_to_usage(usage, code, n) ==
  LET norm == oa_normalize_code(code)
      bucket == DictGet(usage, norm)
  IN  IF norm = <<>> THEN usage
      ELSE IF \E j \in 1..Len(bucket) : bucket[j] = n
      THEN (IF DictHas(usage, norm) THEN usage ELSE DictSet(usage, norm, <<>>))
      ELSE DictSet(usage, norm, Append(bucket, n))

\* for node in nodes: skip a node that is not a key of the ontology index
RECURSIVE AddNodes(_, _, _, _, _)
AddNodes(usage, onto, nodes, n, i) ==
  IF i > Len(nodes) THEN usage
  ELSE AddNodes(IF InOntology(onto, oa_normalize_code(nodes[i]))
                THEN add_item_to_usage(usage, nodes[i], n) ELSE usage,
                onto, nodes, n, i + 1)

\* _chain_nodes of a chain object: its nodes that are not blank
chain_nodes(chain) == SelectSeq(chain.nodes, LAMBDA c : Strip(c) # <<>>)

\* All nodes that one item hands to the merge: those of item.chains, then every
\* string of every extra field (_iter_chain_values yields the strings of a list
\* and _chain_nodes of a string without "->" is the string itself)
ItemNodes(item) ==
  LET RECURSIVE OfChains(_)
      OfChains(i) ==
        IF i > Len(item.chains) THEN <<>>
        ELSE chain_nodes(item.chains[i]) \o OfChains(i + 1)
      RECURSIVE OfExtra(_)
      OfExtra(i) ==
        IF i > Len(item.extra) THEN <<>> ELSE item.extra[i].vals \o OfExtra(i + 1)
  IN  OfChains(1) \o OfExtra(1)

RECURSIVE MergeChains(_, _, _, _)
MergeChains(usage, onto, project, n) ==
  IF n > Len(project) THEN usage
  ELSE MergeChains(AddNodes(usage, onto, ItemNodes(project[n]), n, 1),
                   onto, project, n + 1)

\* _merge_code_usage_with_chains(lp, ontology_index)
merge_code_usage_with_chains(base, onto, project) ==
  MergeChains(MergeBase(<<>>, base, 1), onto, project, 1)

\* _find_code_in_item for an item without code_locations and node_locations:
\* the item-location fallback, one occurrence per extra field and per chain
\* that holds the code
find_code_in_item(code, item) ==
  LET target == oa_normalize_code(code)
      Holds(vals) == \E j \in 1..Len(vals) : oa_normalize_code(vals[j]) = target
      RECURSIVE OfExtra(_)
      OfExtra(i) ==
        IF i > Len(item.extra) THEN <<>>
        ELSE (IF item.extra[i].vals # <<>> /\ Holds(item.extra[i].vals)
              THEN <<[file |-> item.file, line |-> ItemLine(item),
                      column |-> ItemColumn(item),
                      context |-> IF Contains(FCODE, Upper(item.extra[i].name))
                                  THEN "code" ELSE "chain",
                      field |-> item.extra[i].name]>>
              ELSE <<>>) \o OfExtra(i + 1)
      RECURSIVE OfChains(_)
      OfChains(i) ==
        IF i > Len(item.chains) THEN <<>>
        ELSE (IF Holds(chain_nodes(item.chains[i]))
              THEN <<[file |-> item.file,
                      line |-> IF item.chains[i].loc THEN ChainLocLine(item)
                               ELSE ItemLine(item),
                      column |-> IF item.chains[i].loc THEN ChainLocColumn(item)
                                 ELSE ItemColumn(item),
                      context |-> "chain", field |-> FCHAIN]>>
              ELSE <<>>) \o OfChains(i + 1)
  IN  OfExtra(1) \o OfChains(1)

\* _build_occurrences(code, items, workspace_root, None)
RECURSIVE oa_build_occurrences(_, _, _, _)
oa_build_occurrences(code, items, project, i) ==
  IF i > Len(items) THEN <<>>
  ELSE (IF project[items[i]].located THEN find_code_in_item(code, project[items[i]])
        ELSE <<>>) \o oa_build_occurrences(code, items, project, i + 1)

\* _dedupe_occurrences: the first of every (file, line, column, context,
\* lowercased field)
dedupe_occurrences(occs) ==
  LET Key(o) == <<o.file, o.line, o.column, o.context, Lower(o.field)>>
      keep == { i \in 1..Len(occs) : \A j \in 1..(i - 1) : Key(occs[j]) # Key(occs[i]) }
      RECURSIVE Pick(_)
      Pick(i) == IF i > Len(occs) THEN <<>>
                 ELSE (IF i \in keep THEN <<occs[i]>> ELSE <<>>) \o Pick(i + 1)
  IN  Pick(1)

\* str < str, for codes written with letters, "_" and spaces
CharRank(c) ==
  LET table == <<" ">> \o UpperChars \o <<"_">> \o LowerChars IN
  IF \E i \in 1..Len(table) : table[i] = c
  THEN CHOOSE i \in 1..Len(table) : table[i] = c ELSE 0

RECURSIVE StrLess(_, _)
StrLess(a, b) ==
  IF b = <<>> THEN FALSE
  ELSE IF a = <<>> THEN TRUE
  ELSE IF CharRank(Head(a)) # CharRank(Head(b)) THEN CharRank(Head(a)) < CharRank(Head(b))
  ELSE StrLess(Tail(a), Tail(b))

\* annotations.sort(key=lambda a: a["code"]): a stable sort
RECURSIVE SortByCode(_)
SortByCode(anns) ==
  IF anns = <<>> THEN <<>>
  ELSE LET m == CHOOSE i \in 1..Len(anns) :
                  /\ \A j \in 1..Len(anns) : ~StrLess(anns[j].code, anns[i].code)
                  /\ \A j \in 1..(i - 1) : StrLess(anns[i].code, anns[j].code)
       IN  <<anns[m]>> \o SortByCode(SubSeq(anns, 1, m - 1) \o SubSeq(anns, m + 1, Len(anns)))

\* The annotations of get_ontology_annotations, built from the merged usage
Annotations(usage, onto, project) ==
  SortByCode([e \in 1..Len(onto) |->
     [code |-> onto[e], ontologyDefined |-> TRUE,
      occurrences |-> dedupe_occurrences(
                        oa_build_occurrences(onto[e], DictGet(usage, onto[e]), project, 1))]])

(***************************************************************************)
(* The two requests on one linked project                                  *)
(***************************************************************************)
UsInit ==
  /\ usBase \in UsBases
  /\ usOnto \in UsOntologies
  /\ usProject \in UsProjects
  /\ usOp = "none"
  /\ usUsage = <<>>
  /\ usOut = <<>>

\* No request is running (the other specifications)
UsIdle ==
  /\ usBase = <<>>
  /\ usOnto = <<>>
  /\ usProject = <<>>
  /\ usOp = "idle"
  /\ usUsage = <<>>
  /\ usOut = <<>>

\* get_codes(cached_result) on a linked project
UsGetCodes ==
  /\ usOp \in {"none", "codes", "annotations"}
  /\ usOp' = "codes"
  /\ usUsage' = CodeUsageOf(usBase, usOnto, usProject)
  /\ usOut' = CodesEntries(usUsage', usOnto, usProject)
  /\ UNCHANGED <<usBase, usOnto, usProject, usOthers>>

\* get_ontology_annotations(cached_result) without an active file
UsGetAnnotations ==
  /\ usOp \in {"none", "codes", "annotations"}
  /\ usOp' = "annotations"
  /\ usUsage' = merge_code_usage_with_chains(usBase, usOnto, usProject)
  /\ usOut' = IF usOnto = <<>> THEN <<>> ELSE Annotations(usUsage', usOnto, usProject)
  /\ UNCHANGED <<usBase, usOnto, usProject, usOthers>>

UsNext ==
  \/ UsGetCodes
  \/ UsGetAnnotations

(***************************************************************************)
(* The three _normalize_code functions applied to two spellings            *)
(***************************************************************************)
MaxNormLen == 4

NormChars == {"a", "A", " "}
NormStrings == UNION { [1..k -> NormChars] : k \in 0..MaxNormLen }

NormNone == [fn |-> "none", x |-> <<>>, y |-> <<>>, xx |-> <<>>]

NormInit ==
  /\ nmIn \in [x : NormStrings, y : NormStrings]
  /\ nmOut = NormNone

\* Nothing is normalized (the other specifications)
NormIdle ==
  /\ nmIn = [x |-> <<>>, y |-> <<>>]
  /\ nmOut = NormNone

\* _normalize_code of explorer_requests.py on both spellings, and on its own
\* result
NormExplorer ==
  /\ nmOut = NormNone
  /\ nmOut' = [fn |-> "explorer_requests", x |-> er_normalize_code(nmIn.x),
               y |-> er_normalize_code(nmIn.y),
               xx |-> er_normalize_code(er_normalize_code(nmIn.x))]
  /\ UNCHANGED <<nmIn, nmOthers>>

\* _normalize_code of ontology_annotations.py
NormAnnotations ==
  /\ nmOut = NormNone
  /\ nmOut' = [fn |-> "ontology_annotations", x |-> oa_normalize_code(nmIn.x),
               y |-> oa_normalize_code(nmIn.y),
               xx |-> oa_normalize_code(oa_normalize_code(nmIn.x))]
  /\ UNCHANGED <<nmIn, nmOthers>>

\* _normalize_code of rename.py
NormRename ==
  /\ nmOut = NormNone
  /\ nmOut' = [fn |-> "rename", x |-> rn_normalize_code(nmIn.x),
               y |-> rn_normalize_code(nmIn.y),
               xx |-> rn_normalize_code(rn_normalize_code(nmIn.x))]
  /\ UNCHANGED <<nmIn, nmOthers>>

NormNext ==
  \/ NormExplorer
  \/ NormAnnotations
  \/ NormRename

(***************************************************************************)
(* Specifications                                                          *)
(***************************************************************************)
InitRel == RelInit /\ GcIdle /\ PatIdle /\ ScanIdle /\ WsIdle /\ ChIdle /\ WcIdle /\ SvIdle
        /\ LcIdle /\ TkIdle /\ PrIdle /\ EdIdle /\ MemoIdle /\ NormIdle /\ RenIdle /\
           UsIdle

SpecRel == InitRel /\ [][RelNext]_vars

InitGc == GcInit /\ RelIdle /\ PatIdle /\ ScanIdle /\ WsIdle /\ ChIdle /\ WcIdle /\ SvIdle
       /\ LcIdle /\ TkIdle /\ PrIdle /\ EdIdle /\ MemoIdle /\ NormIdle /\ RenIdle /\
          UsIdle

SpecGc == InitGc /\ [][GcNext]_vars

InitPat == PatInit /\ RelIdle /\ GcIdle /\ ScanIdle /\ WsIdle /\ ChIdle /\ WcIdle /\ SvIdle
        /\ LcIdle /\ TkIdle /\ PrIdle /\ EdIdle /\ MemoIdle /\ NormIdle /\ RenIdle /\
           UsIdle

SpecPat == InitPat /\ [][PatNext]_vars

InitScan == ScanInit /\ RelIdle /\ GcIdle /\ PatIdle /\ WsIdle /\ ChIdle /\ WcIdle /\ SvIdle
         /\ LcIdle /\ TkIdle /\ PrIdle /\ EdIdle /\ MemoIdle /\ NormIdle /\ RenIdle /\
            UsIdle

SpecScan == InitScan /\ [][ScanNext]_vars

InitCache == WsInit /\ RelIdle /\ GcIdle /\ PatIdle /\ ScanIdle /\ ChIdle /\ WcIdle /\ SvIdle
          /\ LcIdle /\ TkIdle /\ PrIdle /\ EdIdle /\ MemoIdle /\ NormIdle /\ RenIdle /\
             UsIdle

SpecCache == InitCache /\ [][WsNext]_vars

InitChain == ChInit /\ RelIdle /\ GcIdle /\ PatIdle /\ ScanIdle /\ WsIdle /\ WcIdle /\ SvIdle
          /\ LcIdle /\ TkIdle /\ PrIdle /\ EdIdle /\ MemoIdle /\ NormIdle /\ RenIdle /\
             UsIdle

SpecChain == InitChain /\ [][ChNext]_vars

InitWsCache == WcInit /\ RelIdle /\ GcIdle /\ PatIdle /\ ScanIdle /\ WsIdle /\ ChIdle /\ SvIdle
            /\ LcIdle /\ TkIdle /\ PrIdle /\ EdIdle /\ MemoIdle /\ NormIdle /\ RenIdle /\
               UsIdle

SpecWsCache == InitWsCache /\ [][WcNext]_vars

InitServer == SvInit /\ RelIdle /\ GcIdle /\ PatIdle /\ ScanIdle /\ WsIdle /\ ChIdle /\ WcIdle
           /\ LcIdle /\ TkIdle /\ PrIdle /\ EdIdle /\ MemoIdle /\ NormIdle /\ RenIdle /\
              UsIdle

SpecServer == InitServer /\ [][SvNext]_vars

InitLoc == LcInit /\ RelIdle /\ GcIdle /\ PatIdle /\ ScanIdle /\ WsIdle /\ ChIdle /\ WcIdle
        /\ SvIdle /\ TkIdle /\ PrIdle /\ EdIdle /\ MemoIdle /\ NormIdle /\ RenIdle /\
           UsIdle

SpecLoc == InitLoc /\ [][LcNext]_vars

InitTokens == TkInit /\ RelIdle /\ GcIdle /\ PatIdle /\ ScanIdle /\ WsIdle /\ ChIdle /\ WcIdle
           /\ SvIdle /\ LcIdle /\ PrIdle /\ EdIdle /\ MemoIdle /\ NormIdle /\ RenIdle /\
              UsIdle

SpecTokens == InitTokens /\ [][TkNext]_vars

InitPrepare == PrInit /\ RelIdle /\ GcIdle /\ PatIdle /\ ScanIdle /\ WsIdle /\ ChIdle /\ WcIdle
            /\ SvIdle /\ LcIdle /\ TkIdle /\ EdIdle /\ MemoIdle /\ NormIdle /\ RenIdle /\
               UsIdle

SpecPrepare == InitPrepare /\ [][PrNext]_vars

InitEdits == EdInit /\ RelIdle /\ GcIdle /\ PatIdle /\ ScanIdle /\ WsIdle /\ ChIdle /\ WcIdle
          /\ SvIdle /\ LcIdle /\ TkIdle /\ PrIdle /\ MemoIdle /\ NormIdle /\ RenIdle /\
             UsIdle

SpecEdits == InitEdits /\ [][EdNext]_vars

InitMemo == MemoInit /\ RelIdle /\ GcIdle /\ PatIdle /\ ScanIdle /\ WsIdle /\ ChIdle /\
            WcIdle /\ SvIdle /\ LcIdle /\ TkIdle /\ PrIdle /\ EdIdle /\ NormIdle /\ RenIdle
         /\ UsIdle

SpecMemo == InitMemo /\ [][MemoNext]_vars

InitNorm == NormInit /\ RelIdle /\ GcIdle /\ PatIdle /\ ScanIdle /\ WsIdle /\ ChIdle /\
            WcIdle /\ SvIdle /\ LcIdle /\ TkIdle /\ PrIdle /\ EdIdle /\ MemoIdle /\ RenIdle
         /\ UsIdle

SpecNorm == InitNorm /\ [][NormNext]_vars

InitRename == RenInit /\ RelIdle /\ GcIdle /\ PatIdle /\ ScanIdle /\ WsIdle /\ ChIdle /\
              WcIdle /\ SvIdle /\ LcIdle /\ TkIdle /\ PrIdle /\ EdIdle /\ MemoIdle /\ NormIdle
           /\ UsIdle

SpecRename == InitRename /\ [][RenNext]_vars

InitUsage == UsInit /\ RelIdle /\ GcIdle /\ PatIdle /\ ScanIdle /\ WsIdle /\ ChIdle /\ WcIdle
          /\ SvIdle /\ LcIdle /\ TkIdle /\ PrIdle /\ EdIdle /\ MemoIdle /\ NormIdle /\
             RenIdle

SpecUsage == InitUsage /\ [][UsNext]_vars

\* C1: during one build of the relation index, an entry once written for a
\* normalized (subject, relation, object) key keeps its location and type,
\* whatever candidate for that key comes later.
C1_EntryPermanent ==
  [][relPhase # "done" =>
       \A k \in DOMAIN relIndex : k \in DOMAIN relIndex' /\ relIndex'[k] = relIndex[k]]_vars

\* C1 witness: a later candidate with a location was discarded for a key whose
\* entry has none.
C1_Witness ==
  /\ relLast.dup
  /\ relLast.loc # "absent"
  /\ relLast.key \in DOMAIN relIndex
  /\ relIndex[relLast.key].location = "absent"


\* C11: a triple first found in an item's chains with a location is reported
\* by get_relations with that location, whatever relation mapping or
\* project-level chain names the same triple later.
C11_ItemLocationReported ==
  \A k \in DOMAIN relItemLoc :
    relItemLoc[k] # "absent" => reported_location(relIndex, k) = relItemLoc[k]

\* C11 witness: a relation mapping or a project-level chain has just named,
\* with another location, a triple that an item chain had located.
C11_Witness ==
  /\ relPhase \in {"mapping", "lpchains"}
  /\ relLast.dup
  /\ relLast.key \in DOMAIN relItemLoc
  /\ relItemLoc[relLast.key] \in GoodLocs
  /\ relLast.loc \in GoodLocs
  /\ relLast.loc # relItemLoc[relLast.key]

(***************************************************************************)
(* Claims about the location of an indexed chain                           *)
(***************************************************************************)
\* The first complete location of a list of candidates, "absent" without one
RECURSIVE FirstComplete(_)
FirstComplete(cands) ==
  IF cands = <<>> THEN "absent"
  ELSE IF Head(cands) \in GoodLocs THEN Head(cands)
  ELSE FirstComplete(Tail(cands))

\* (a) the fourth slot, (b) the location attribute, (c) the "location" key
OwnLocations(chain) ==
  << IF chain.shape = "tuple4" THEN chain.slot ELSE "absent",
     chain.attr,
     IF chain.shape = "dict" THEN chain.dloc ELSE "absent" >>

C2_SingleTier ==
  gcPc = "done" =>
    \A e \in 1..Len(gcCodes) :
      \A i, j \in 1..Len(gcCodes[e].occurrences) :
        gcCodes[e].occurrences[i].item = gcCodes[e].occurrences[j].item
          => gcCodes[e].occurrences[i].tier = gcCodes[e].occurrences[j].tier

\* C3: in the result of get_codes, no two occurrences of one code's list have
\* the same (file, line, column, context, lowercased field name).
C3_UniqueIdentity ==
  gcPc = "done" =>
    \A e \in 1..Len(gcCodes) :
      \A i, j \in 1..Len(gcCodes[e].occurrences) :
        LET a == gcCodes[e].occurrences[i]
            b == gcCodes[e].occurrences[j]
        IN  (/\ a.file = b.file /\ a.line = b.line /\ a.column = b.column
             /\ a.context = b.context /\ Lower(a.field) = Lower(b.field)) => i = j

\* C8: within one get_codes build, no file is read from disk more than once.
C8_ReadAtMostOnce == \A f \in GcFiles : gcReads[f] <= 1

\* C9: no failure to read or scan an item's source file leaves get_codes as an
\* exception.
C9_NeverRaises == gcPc # "raised"


\* The compiler gave, for this item, a position of a field or chain that holds
\* the code.
CompilerPositions(item, code) ==
  LET st == CompilerDriven([occs |-> <<>>, seen |-> {}], item, 1, code) IN
  \E i \in 1..Len(st.occs) : st.occs[i].tier = "precise"

\* C12: the tiers are tried in the order compiler positions, raw-source rescan,
\* item position: for an item that carries compiler-supplied positions of the
\* target code, the pass of the loop does not read the item's file for a rescan.
C12_RescanAfterCompilerTier ==
  [][(/\ Len(gcItems') = Len(gcItems) + 1
      /\ gcItems'[Len(gcItems')].located
      /\ CompilerPositions(gcItems'[Len(gcItems')], gcCode))
       => gcReads' = gcReads]_vars
(***************************************************************************)
(* Claims about the codes of a chain                                       *)
(***************************************************************************)
\* The nodes at positions 0, 2, 4, ... of a list
RECURSIVE EvenPositions(_)
EvenPositions(nodes) ==
  IF nodes = <<>> THEN <<>>
  ELSE IF Len(nodes) = 1 THEN nodes
  ELSE <<nodes[1]>> \o EvenPositions(SubSeq(nodes, 3, Len(nodes)))

\* The rule: with split, an odd number of at least 3 nodes has its concepts at
\* the even positions; else every node is a concept
ConceptsOf(nodes, split) ==
  IF split /\ Len(nodes) >= 3 /\ Len(nodes) % 2 = 1 THEN EvenPositions(nodes) ELSE nodes

IsBlank(s) == \A i \in 1..Len(s) : s[i] \in {" ", "\t"}

\* The nodes of a chain value: the strings it is made of that are not blank,
\* without the blanks around them, and in a line of text without a qualifier
RECURSIVE ExtractedNodes(_, _)
ExtractedNodes(parts, text) ==
  IF parts = <<>> THEN <<>>
  ELSE LET p == parts[1]
           node == IF text /\ p = ChQualified THEN <<"c">>
                   ELSE SelectSeq(p, LAMBDA c : c # " ")
       IN  (IF IsBlank(p) THEN <<>> ELSE <<node>>) \o ExtractedNodes(Tail(parts), text)

TokenTexts(tokens) == [i \in 1..Len(tokens) |-> tokens[i].text]

\* C20: for a field that declares relations, a chain of an odd number of at
\* least 3 extracted nodes that carries no relations list of its own has its
\* concept codes at the even positions; in every other case every extracted node
\* is a concept code. The tokenizer of the text applies the same rule to the
\* segments of the line.
C20_SplitRule ==
  /\ chOp = "extract" =>
       chOut = ConceptsOf(ExtractedNodes(chIn.chain.parts, FALSE),
                          chIn.has_relations /\ chIn.chain.relations = <<>>)
  /\ chOp = "tokens" =>
       TokenTexts(chOut) = ConceptsOf(ExtractedNodes(chIn.chain.parts, TRUE),
                                      chIn.has_relations)

\* C20 witness: a chain object of five nodes, without relations of its own, in
\* a field that declares relations, gave three codes.
C20_Witness ==
  /\ chOp = "extract"
  /\ chIn.has_relations
  /\ chIn.chain.shape = "object"
  /\ chIn.chain.relations = <<>>
  /\ Len(ExtractedNodes(chIn.chain.parts, FALSE)) = 5
  /\ chOut = << <<"a">>, <<"b">>, <<"a">> >>

\* C20 as stated: the rule depends on the field and the node count only.
C20_SplitRuleAnyChain ==
  /\ chOp = "extract" =>
       chOut = ConceptsOf(ExtractedNodes(chIn.chain.parts, FALSE), chIn.has_relations)
  /\ chOp = "tokens" =>
       TokenTexts(chOut) = ConceptsOf(ExtractedNodes(chIn.chain.parts, TRUE),
                                      chIn.has_relations)

(***************************************************************************)
(* Claims about the tokens of a line                                       *)
(***************************************************************************)
\* The line has, from the column of the occurrence on, the text the
\* occurrence is filed under (in any case of letters)
PointsAtToken(line, occ) ==
  /\ occ.column >= 1
  /\ occ.column + Len(occ.key) - 1 <= Len(line)
  /\ Lower(SubSeq(line, occ.column, occ.column + Len(occ.key) - 1)) = occ.key

\* The tokens of a line, taken alone: every occurrence recorded for a field
\* line or a continuation line points at its token, and none lies in the
\* comment.
C28_RecordedAtToken ==
  tkOut.op = "record" =>
    \A i \in 1..Len(tkOut.occ) :
      /\ PointsAtToken(tkIn.line, tkOut.occ[i])
      /\ \A q \in 1..tkOut.occ[i].column : tkIn.line[q] # "#"
      /\ tkOut.occ[i].line = 2

\* C28: the rescan of an item block returns occurrences, and each of them
\* points at a token of the CODE or CHAIN line of the block.
C28_RescanLocatesTokens ==
  tkOut.op = "parse" =>
    /\ ~tkOut.raised
    /\ \A i \in 1..Len(tkOut.occ) : PointsAtToken(tkIn.line, tkOut.occ[i])

(***************************************************************************)
(* Claims about the rename patterns                                        *)
(***************************************************************************)
\* Where the old name begins inside a match
NameStart(m) == m.start + Len(patPattern.prefix)

\* C4: in every match of a rename pattern, the character just before the old
\* name and the character just after the match are not identifier characters
\* (letters, digits, underscore, hyphen, dot). For a code the match is the old
\* name; for a bibref the match is "@" and the old name, so the character
\* before the old name is that "@".
C4_NameNotInsideIdentifier ==
  patPc = "scanned" =>
    \A i \in 1..Len(patMatches) :
      /\ NameStart(patMatches[i]) = 1 \/ ~IsIdentChar(patLine[NameStart(patMatches[i]) - 1])
      /\ patMatches[i].stop > Len(patLine) \/ ~IsIdentChar(patLine[patMatches[i].stop])

\* C4 witness: a scanned string holds the old name twice, once on its own
\* (matched) and once followed by an identifier character (not matched).
C4_Witness ==
  /\ patPc = "scanned"
  /\ Len(patMatches) = 1
  /\ \E p \in 1..Len(patLine) :
       /\ p # NameStart(patMatches[1])
       /\ LitAt(patLine, p, patPattern.alts[1])
       /\ p + Len(patPattern.alts[1]) <= Len(patLine)
       /\ IsIdentChar(patLine[p + Len(patPattern.alts[1])])

\* C4 as stated: the character just before the match, not just before the old
\* name, is never an identifier character.
C4_MatchNotPrecededByIdent ==
  patPc = "scanned" =>
    \A i \in 1..Len(patMatches) :
      /\ patMatches[i].start = 1 \/ ~IsIdentChar(patLine[patMatches[i].start - 1])
      /\ patMatches[i].stop > Len(patLine) \/ ~IsIdentChar(patLine[patMatches[i].stop])

(***************************************************************************)
(* Claims about the scanners of a code rename                              *)
(***************************************************************************)
ScanHeader == IF scanFile = "syn" THEN "ITEM" ELSE "ONTOLOGY"
ScanEnd == IF scanFile = "syn" THEN "END ITEM" ELSE "END ONTOLOGY"

\* Line n lies inside a block of the file's kind: the last header or END line
\* before it is a header, and it is neither itself.
InsideBlock(n) ==
  /\ scanLines[n].kind \notin {ScanHeader, ScanEnd}
  /\ \E h \in 1..(n - 1) :
       /\ scanLines[h].kind = ScanHeader
       /\ \A j \in (h + 1)..(n - 1) : scanLines[j].kind \notin {ScanHeader, ScanEnd}

\* The template classifies the field as CODE or CHAIN for the block's scope
ClassifiedCode(name) ==
  \E spec \in ScanTemplate :
    /\ Lower(spec.name) = Lower(name)
    /\ spec.scope = ScanHeader
    /\ spec.type \in {"CODE", "CHAIN"}

\* Line n continues a CODE/CHAIN field: the last "name: value" line before it
\* is such a field, in the same block, and n is indented strictly more.
ContinuesCodeField(n) ==
  \E f \in 1..(n - 1) :
    /\ scanLines[f].kind = "field"
    /\ ClassifiedCode(scanLines[f].name)
    /\ scanLines[n].indent > scanLines[f].indent
    /\ \A j \in (f + 1)..(n - 1) : scanLines[j].kind \notin {"field", ScanHeader, ScanEnd}

TokenIn(f) ==
  /\ rnFiles[f].disk = "text"
  /\ \E n \in 1..Len(rnFiles[f].lines) :
       IF rnOp = "bibref" THEN rnFiles[f].lines[n].bib ELSE rnFiles[f].lines[n].has

\* The files the rename scans
Scanned == IF rnOp = "bibref" THEN rnBib ELSE collect_files(rnFiles)

\* C17: in the result of a code or bibref rename every file entry holds at
\* least one edit; a scanned file that cannot be read or does not hold the
\* token has no entry, and the result is None exactly when no file has an edit.
C17_EveryEntryHasEdits ==
  rnOp \in {"code", "bibref"} =>
    /\ rnResult \in {"None", "WorkspaceEdit"}
    /\ \A f \in DOMAIN rnChanges : f \in Scanned /\ rnChanges[f] # <<>>
    /\ \A f \in RenNames : ~TokenIn(f) => f \notin DOMAIN rnChanges
    /\ rnResult = "None" <=> DOMAIN rnChanges = {}
    /\ (\A f \in Scanned : ~TokenIn(f)) => rnResult = "None"

\* C17 witness: a rename returned edits for one file while it had scanned a
\* file that cannot be read and a file that does not hold the token.
C17_Witness ==
  /\ rnResult = "WorkspaceEdit"
  /\ \E f \in Scanned : rnFiles[f].disk = "unreadable" /\ f \notin DOMAIN rnChanges
  /\ \E f \in Scanned : rnFiles[f].disk = "text" /\ ~TokenIn(f) /\ f \notin DOMAIN rnChanges

\* The .syno file defines the code: the name of an ONTOLOGY header is the code
Defining(f) ==
  /\ rnFiles[f].suffix = "syno"
  /\ rnFiles[f].disk = "text"
  /\ \E n \in 1..Len(rnFiles[f].lines) :
       rnFiles[f].lines[n].kind = "ONTOLOGY" /\ rnFiles[f].lines[n].has

\* The .syn file references the code in a field of an item that the project's
\* template types CODE or CHAIN
Referencing(f) ==
  /\ rnFiles[f].suffix = "syn"
  /\ rnFiles[f].disk = "text"
  /\ \E n \in 1..Len(rnFiles[f].lines) :
       /\ rnFiles[f].lines[n].kind = "field"
       /\ rnFiles[f].lines[n].has
       /\ \E spec \in ScanTemplate :
            /\ Lower(spec.name) = Lower(rnFiles[f].lines[n].name)
            /\ spec.scope = "ITEM"
            /\ spec.type \in {"CODE", "CHAIN"}
       /\ \E h \in 1..(n - 1) :
            /\ rnFiles[f].lines[h].kind = "ITEM"
            /\ \A j \in (h + 1)..(n - 1) :
                 rnFiles[f].lines[j].kind \notin {"ITEM", "END ITEM"}

\* C16: a code rename changes the file that defines the code and every file
\* that references it in a CODE or CHAIN field of an item, and no other file:
\* n + 1 files for n referencing files.
C16_DefiningAndReferencingChanged ==
  (rnOp = "code" /\ Defining("o1")) =>
    /\ rnResult = "WorkspaceEdit"
    /\ DOMAIN rnChanges = {"o1"} \cup { f \in {"s1", "s2"} : Referencing(f) }


\* C29: on the same document, cursor and cached compilation, a rename that
\* returns a WorkspaceEdit has a prepareRename that returns a range; the range
\* lies on the line and holds the cursor.
C29_RenameImpliesPrepare ==
  (prEdit = "WorkspaceEdit" /\ prRange.kind \notin {"unset", "idle"}) =>
    /\ prRange.kind = "Range"
    /\ prRange.start <= prIn.position.character
    /\ prIn.position.character < prRange.end
    /\ prRange.end <= Len(prIn.line)

\* C29 witness: both requests were served for a cursor on a bibref, the
\* rename returned edits and the range is the one of the bibref.
C29_Witness ==
  /\ prEdit = "WorkspaceEdit"
  /\ prRange = [kind |-> "Range", start |-> 0, end |-> 3]
  /\ prIn.line[1] = "@"


\* Two edits of a file cover disjoint character ranges
EdDisjoint(e, f) ==
  \/ e.start.line # f.start.line
  \/ e.end.character <= f.start.character
  \/ f.end.character <= e.start.character

\* C30: the edits of a file never overlap and never repeat: every edit lies
\* on one line of the file and covers the old name there, and any two edits
\* cover disjoint character ranges.
C30_EditsDisjoint ==
  edOut.op = "scanned" =>
    /\ \A i \in 1..Len(edOut.edits) :
         LET e == edOut.edits[i] IN
         /\ e.start.line = e.end.line
         /\ e.start.line + 1 \in 1..Len(edIn.lines)
         /\ 0 <= e.start.character /\ e.start.character < e.end.character
         /\ e.end.character <= Len(edIn.lines[e.start.line + 1].full)
         /\ Lower(SubSeq(edIn.lines[e.start.line + 1].full,
                         e.start.character + 1, e.end.character)) = Lower(edIn.word)
    /\ \A i, j \in 1..Len(edOut.edits) :
         i # j => EdDisjoint(edOut.edits[i], edOut.edits[j])

\* C30 witness: a scan gave two edits on a field line and two on the
\* continuation line that follows it.
C30_Witness ==
  /\ edOut.op = "scanned"
  /\ Len(edOut.edits) = 4
  /\ edOut.edits[1].start.line = edOut.edits[2].start.line
  /\ edOut.edits[3].start.line = edOut.edits[4].start.line
  /\ edOut.edits[3].start.line = edOut.edits[1].start.line + 1

(***************************************************************************)
(* Claims about the workspace cache and the result memos                   *)
(***************************************************************************)
\* The full, unfiltered annotations of a linked project
FullAnnotations(proj) == AnnItems(proj)

\* C6: every payload held by the annotation memo is the full unfiltered
\* result, whatever calls with an active file came before, and a call
\* without active file returns the full result.
C6_MemoStaysFull ==
  /\ \A i \in 1..Len(memoAnn) : memoAnn[i].val.data = FullAnnotations("p1")
  /\ (wsLast.op = "annotations" /\ wsLast.active = NoFile /\ wsLast.resp.success)
       => wsLast.resp.data = FullAnnotations(wsCache[wsLast.ws].result)

\* C6 witness: the last call had an active file and returned less than the
\* full result, and the memo holds an entry for the snapshot it was served from.
C6_Witness ==
  /\ wsLast.op = "annotations"
  /\ wsLast.active # NoFile
  /\ wsLast.resp.success
  /\ wsLast.resp.data # FullAnnotations("p1")
  /\ MemoGet(memoAnn, cache_key(wsCache[wsLast.ws], wsLast.ws)) # NoPayload

\* C7: a successful response of get_relations, get_ontology_annotations or
\* get_ontology_topics is built from the compilation that the workspace cache
\* holds for the workspace at the time of the request, never from an earlier one.
C7_NeverStale ==
  (wsLast.op \in {"relations", "annotations", "topics"} /\ wsLast.resp.success)
    => wsLast.resp.from = wsCache[wsLast.ws].timestamp

\* C7 witness: get_relations answered for a compilation whose object has the
\* id of an earlier compilation of the same workspace, while the memo still
\* holds the entry built from that earlier one.
C7_Witness ==
  /\ wsLast.op = "relations"
  /\ wsLast.resp.success
  /\ \E i \in 1..Len(memoRel) :
       /\ memoRel[i].key[1] = wsLast.ws
       /\ memoRel[i].key[2] = wsCache[wsLast.ws].id
       /\ memoRel[i].key[3] < wsCache[wsLast.ws].timestamp

\* No cached compilation for the workspace, or one without linked project
NoCompilation(w) == ~wsCache[w].live \/ wsCache[w].result = NoLp

\* C10: a request for a workspace without cached compilation, or whose
\* compilation has no linked project, returns success = false with an error
\* reason and no data, and leaves the three memos as they were.
C10_NoCacheEnvelope ==
  [][(wsLast'.op # "none" /\ wsCache' = wsCache /\ NoCompilation(wsLast'.ws))
       => /\ ~wsLast'.resp.success
          /\ wsLast'.resp.error \notin {"", "none"}
          /\ wsLast'.resp.data = <<>>
          /\ memoRel' = memoRel /\ memoAnn' = memoAnn /\ memoTop' = memoTop]_vars

\* C10 witness: a request was answered for a workspace whose compilation was
\* invalidated, while the memos still hold results.
C10_Witness ==
  /\ wsLast.op = "annotations"
  /\ ~wsCache[wsLast.ws].live
  /\ ~wsLast.resp.success
  /\ memoRel # <<>> /\ memoAnn # <<>> /\ memoTop # <<>>


\* An occurrence's file is the active file: the same path, or the active file
\* is a longer path that ends with "/" and the occurrence's path
LocatedIn(relative_file, active_file) ==
  LET a == normalize_path_value(active_file)
      r == normalize_path_value(relative_file)
  IN  \/ a = r
      \/ /\ Len(a) > Len(r)
         /\ SubSeq(a, Len(a) - Len(r), Len(a)) = <<"/">> \o r

\* C19: every occurrence that get_ontology_annotations returns for an active
\* file F is located in F.
C19_OnlyActiveFile ==
  (wsLast.op = "annotations" /\ wsLast.active # NoFile /\ wsLast.resp.success)
    => \A i \in 1..Len(wsLast.resp.data) :
         \A j \in 1..Len(wsLast.resp.data[i].occurrences) :
           LocatedIn(wsLast.resp.data[i].occurrences[j].file, wsLast.active)

(***************************************************************************)
(* Claims about the usage maps                                             *)
(***************************************************************************)
\* The entries of a result list for one code
EntriesOf(out, code) == { e \in 1..Len(out) : out[e].code = code }

\* No raw key of the usage that get_codes starts from normalizes to the code
UnusedInCodes(code) ==
  LET raw == get_code_usage(usBase, usProject) IN
  \A i \in 1..Len(raw) : Lower(Strip(raw[i].key)) # code

\* The code is in no precomputed entry and in no chain or field of an item
UnusedInAnnotations(code) ==
  /\ \A i \in 1..Len(usBase) : Lower(Strip(usBase[i].key)) # code
  /\ \A n \in 1..Len(usProject) :
       \A j \in 1..Len(ItemNodes(usProject[n])) :
         Lower(Strip(ItemNodes(usProject[n])[j])) # code

Contributing(code) ==
  LET raw == get_code_usage(usBase, usProject) IN
  UNION { { raw[i].val[j] : j \in 1..Len(raw[i].val) } :
            i \in { k \in 1..Len(raw) : Lower(Strip(raw[k].key)) = code } }

\* C14: get_codes lists one entry per normalized code, and its usageCount is
\* the number of items that contribute to the code.
C14_OneEntryPerCode ==
  usOp = "codes" =>
    /\ \A e, f \in 1..Len(usOut) :
         Lower(Strip(usOut[e].code)) = Lower(Strip(usOut[f].code)) => e = f
    /\ \A e \in 1..Len(usOut) :
         /\ usOut[e].code = Lower(Strip(usOut[e].code))
         /\ usOut[e].usageCount = Cardinality(Contributing(usOut[e].code))

\* C15: after _merge_code_usage_with_chains the list of a normalized code holds
\* every item of every precomputed entry that normalizes to the code and every
\* item that has the code as a chain node, each of them once.
C15_MergedIsUnion ==
  usOp = "annotations" =>
    /\ \A i \in 1..Len(usBase) : \A j \in 1..Len(usBase[i].val) :
         \E k \in 1..Len(DictGet(usUsage, Lower(Strip(usBase[i].key)))) :
           DictGet(usUsage, Lower(Strip(usBase[i].key)))[k] = usBase[i].val[j]
    /\ \A n \in 1..Len(usProject) : \A c \in 1..Len(usProject[n].chains) :
         \A j \in 1..Len(usProject[n].chains[c].nodes) :
           \E k \in 1..Len(DictGet(usUsage, Lower(Strip(usProject[n].chains[c].nodes[j])))) :
             DictGet(usUsage, Lower(Strip(usProject[n].chains[c].nodes[j])))[k] = n
    /\ \A e \in 1..Len(usUsage) : \A k, l \in 1..Len(usUsage[e].val) :
         usUsage[e].val[k] = usUsage[e].val[l] => k = l


\* C22: an item that holds the code and has no precise position for it gets
\* exactly one occurrence in the annotation of the code, at the item's own
\* position (no item of these projects has a precise position).
C22_OneFallbackOccurrence ==
  usOp = "annotations" =>
    \A e \in 1..Len(usOut) :
      LET items == DictGet(usUsage, usOut[e].code)
          occs == usOut[e].occurrences
      IN  \A k \in 1..Len(items) :
            LET item == usProject[items[k]] IN
            item.located =>
              Cardinality({ j \in 1..Len(occs) :
                              /\ occs[j].line = ItemLine(item)
                              /\ occs[j].column = ItemColumn(item) }) = 1

(***************************************************************************)
(* Claims about the result memos                                           *)
(***************************************************************************)
MemoKeysOf(memo) == { memo[i].key : i \in 1..Len(memo) }

\* C18: a result memo never holds more than 4 entries, and a request that
\* stores a result in a full memo evicts exactly one entry, which is not the
\* one it stored; any other request evicts nothing.
C18_MemoBounded ==
  /\ Len(mmMemo) <= 4
  /\ mmLast # MemoNoLast =>
       /\ mmLast.key \in MemoKeysOf(mmMemo)
       /\ IF Len(mmLast.before) = 4 /\ mmLast.key \notin MemoKeysOf(mmLast.before)
          THEN /\ Cardinality(MemoKeysOf(mmLast.before) \ MemoKeysOf(mmMemo)) = 1
               /\ Cardinality(MemoKeysOf(mmMemo)) = 4
          ELSE MemoKeysOf(mmLast.before) \subseteq MemoKeysOf(mmMemo)

\* C18 witness: a fifth result has just been stored in a memo that held four.
C18_Witness ==
  /\ Len(mmLast.before) = 4
  /\ ~mmLast.hit
  /\ mmLast.key \notin MemoKeysOf(mmLast.before)
  /\ Len(mmMemo) = 4
  /\ mmMemo[4].key = mmLast.key

(***************************************************************************)
(* Claims about code normalization                                         *)
(***************************************************************************)
\* The words of a string: its maximal runs of characters that are not blank
RECURSIVE WordsOf(_)
WordsOf(s) ==
  IF s = <<>> THEN <<>>
  ELSE IF s[1] = " " THEN WordsOf(Tail(s))
  ELSE LET n == IF \E i \in 1..Len(s) : s[i] = " "
                THEN (CHOOSE i \in 1..Len(s) : s[i] = " " /\ \A j \in 1..(i - 1) : s[j] # " ") - 1
                ELSE Len(s)
       IN  <<SubSeq(s, 1, n)>> \o WordsOf(SubSeq(s, n + 1, Len(s)))

FoldCase(s) == [i \in 1..Len(s) |-> IF s[i] = "A" THEN "a" ELSE s[i]]

\* Two spellings that differ only in letter case, in blanks at the ends or in
\* the length of the runs of blanks inside
SameSpelling(x, y) ==
  /\ WordsOf(FoldCase(x)) = WordsOf(FoldCase(y))
  /\ Len(WordsOf(x)) > 0

\* C21: every normalization function is idempotent and gives the same key for
\* two spellings that differ only in case, blanks at the ends or the length of
\* the runs of blanks inside.
C21_NormalizeInsensitive ==
  nmOut # NormNone =>
    /\ nmOut.xx = nmOut.x
    /\ SameSpelling(nmIn.x, nmIn.y) => nmOut.x = nmOut.y

\* C21, the part that holds for all three functions: idempotence, and the same
\* key for spellings that differ in case and blanks at the ends only.
C21_IdempotentAndCaseInsensitive ==
  nmOut # NormNone =>
    /\ nmOut.xx = nmOut.x
    /\ FoldCase(Strip(nmIn.x)) = FoldCase(Strip(nmIn.y)) => nmOut.x = nmOut.y

(***************************************************************************)
(* Claims about WorkspaceCache                                             *)
(***************************************************************************)
\* C23: get(k) is what the last put(k) stored if no invalidate(k) came after
\* it and None otherwise, has(k) is true exactly when get(k) is not None, and
\* this holds for every key whatever was done to the other keys.
C23_IsolatedSlots ==
  /\ \A k \in Workspaces :
       /\ WorkspaceCache_get(wcCache, k) = wcExpect[k]
       /\ WorkspaceCache_has(wcCache, k) <=> (WorkspaceCache_get(wcCache, k) # None)
  /\ wcLast.op = "get" =>
       /\ wcLast.out = wcExpect[wcLast.key]
       /\ wcLast.has <=> (wcLast.out # None)

\* C23 witness: both workspaces were loaded, one was loaded again and the other
\* invalidated; get returns the second compilation of the first.
C23_Witness ==
  /\ wcLast.op = "get"
  /\ wcLast.out # None
  /\ wcLast.out.timestamp = 3
  /\ \E k \in Workspaces : k # wcLast.key /\ ~WorkspaceCache_has(wcCache, k)
  /\ wcClock = 3

C26_SwitchReachesOpenDocuments ==
  [][(svLast'.op = "did_change_configuration" /\ svLast'.faults = {})
       => /\ (~svEnabled /\ svEnabled') => \A uri \in svOpen' : svPub'[uri] = "diags"
          /\ (svEnabled /\ ~svEnabled') => \A uri \in svOpen' : svPub'[uri] = "empty"]_vars

\* C27: did_open and did_change, which call validate_document without a
\* handler of their own, never raise; and when the validation failed, the
\* one internal-error diagnostic is what was published.
C27_NothingPropagates ==
  svLast.op \in {"did_open", "did_change"} =>
    /\ ~svLast.raised
    /\ (svEnabled /\ "validate" \in svLast.faults) => svPub[svLast.arg] = "error"

====
